---- MODULE Spec2Model ----
(***************************************************************************)
(* A model of the langflow components package of ssingh-ing/aiden:         *)
(*   - the output methods of the three SDLC components                     *)
(*     (AzureDevOpsComponent, AzureDevOpsWriterComponent, JiraComponent),  *)
(*     as one call that runs step by step against external services whose  *)
(*     answers are chosen nondeterministically (specification Spec);       *)
(*   - AzureDevOpsWriterComponent._parse_priority as a pure function over  *)
(*     character sequences (specification SpecPriority);                   *)
(*   - the component registry of components/__init__.py                    *)
(*     (specification SpecRegistry).                                       *)
(***************************************************************************)
EXTENDS Integers, Sequences, FiniteSets, TLC

VARIABLES
    \* ---- one call of an output method of a component
    method,     \* the output method being run, "idle" before the call
    pc,         \* position of the call in the method's code
    attrs,      \* the component's input attributes: name -> Absent, "" or a value
    session,    \* the aiohttp.ClientSession of the call: "none", "open", "closed"
    opened,     \* number of ClientSession objects the call has opened
    inflight,   \* number of awaited external calls that have not answered yet
    reqlog,     \* the HTTP requests the call has sent, in order
    llmlog,     \* the LLM (OpenAI) calls the call has made, in order
    items,      \* writer: extracted_items
    idx,        \* writer: index of the item being created
    created,    \* writer: created_items
    fetched,    \* reader: work_items returned by _fetch_work_item_details
    exc,        \* str(e) of the exception being handled, "" when none
    caught,     \* whether an except clause of the call has run
    result,     \* the dict given to Data(value=...), NoResult before
    outcome,    \* "running", "returned" (a Data came back) or "raised"
    status,     \* the component's status attribute
    earlier,    \* the call made before this one on the same instance, if any
    \* ---- _parse_priority
    priority_string,
    priority_value,
    \* ---- the registry module
    phase,
    collections,
    CUSTOM_COMPONENT_REGISTRY,
    COMPONENTS_REGISTRY,
    returned,
    prior,
    loaded,     \* the last call of load_component_from_file
    registered, \* the last call of register_with_load_method
    \* ---- the WIQL builders
    wiql_in,    \* the function called and its inputs
    wiql_out,   \* what it returned
    \* ---- the construction of a component
    constructing, \* the class whose __init__ runs, "none" before
    init_pc,      \* position in __init__
    preset,       \* the input attributes the instance had when the base constructor ended
    self_attrs,   \* the input attributes of the instance: name -> Absent or a value
    init_raised   \* whether __init__ let an exception out

callVars == <<method, pc, attrs, session, opened, inflight, reqlog, llmlog, items, idx,
              created, fetched, exc, caught, result, outcome, status, earlier>>
priorityVars == <<priority_string, priority_value>>
registryVars == <<phase, collections, CUSTOM_COMPONENT_REGISTRY, COMPONENTS_REGISTRY,
                  returned, prior, loaded, registered>>
wiqlVars == <<wiql_in, wiql_out>>
initVars == <<constructing, init_pc, preset, self_attrs, init_raised>>
vars == <<callVars, priorityVars, registryVars, wiqlVars, initVars>>

(***************************************************************************)
(* Bounds of the model.                                                    *)
(***************************************************************************)
MaxIds == 2          \* work item ids in one WIQL response
MaxItems == 2        \* items the LLM extraction returns
MaxTokens == 2       \* words a priority string is made of
MaxCollections == 2  \* entries of the collection list of load_components_registry
MaxCollLen == 1      \* components in one collection
MaxParams == 2       \* keys of one params mapping of _build_wiql_query
MaxWords == 2        \* words of one natural-language query

HTTP_OK == 200

(***************************************************************************)
(* Input attributes.  hasattr(self, a) is attrs[a] # Absent; `not value`   *)
(* is true of the empty string and of False.                               *)
(***************************************************************************)
Absent == "<absent>"

\* An attribute value that is not a string (a number, a list): it is true in
\* a condition and has no lower().
NotAString == "<not a string>"

hasattr(a) == attrs[a] # Absent

Falsy(v) == v \in {"", "False"}

\* `not hasattr(self, a) or not getattr(self, a)`
MissingEmptyIgnored(a) == ~hasattr(a)
Missing(a) == ~hasattr(a) \/ Falsy(attrs[a])

AttrNames == {"organization", "project", "pat_token", "use_natural_language",
              "natural_language_query", "wiql_query", "query_type",
              "input_text", "openai_api_key", "work_item_type",
              "site_url", "username", "api_token", "jql_query"}

\* The values the attributes have when the call does not vary them.
DefaultAttrs == [a \in AttrNames |->
    CASE a = "use_natural_language" -> "False"
      [] a = "query_type" -> "flat"
      [] a = "work_item_type" -> "User Story"
      [] OTHER -> "x"]

StrValues == {Absent, "", "x"}

\* The values of natural_language_query.
NLValues == StrValues \cup {"open bugs", NotAString}

\* The first name of the sequence names whose attribute is missing, "" if none.
RECURSIVE FirstMissing(_)
FirstMissing(names) ==
    IF names = <<>> THEN ""
    ELSE IF Missing(Head(names)) THEN Head(names)
    ELSE FirstMissing(Tail(names))

NoResult == [pending |-> TRUE]
NoStatus == [unset |-> TRUE]
NoEarlier == [called |-> FALSE]

(***************************************************************************)
(* Exceptions.  An exception raised at a position leaves the enclosing     *)
(* `async with aiohttp.ClientSession()` block, which closes the session,   *)
(* and goes to the except clause of the enclosing try; a position outside  *)
(* every try lets it out of the method.                                    *)
(***************************************************************************)
\* The positions inside `try: ... except Exception` of each output method.
build_work_items_try ==
    {"bwi_validate", "bwi_query", "bwi_prepare", "bwi_open", "bwi_post", "bwi_post_wait",
     "bwi_get", "bwi_get_wait", "bwi_result", "bwi_close"}
create_work_items_try ==
    {"cwi_validate", "cwi_extract", "cwi_extract_wait", "cwi_check", "cwi_open",
     "cwi_item", "cwi_post_wait", "cwi_close", "cwi_result"}
extract_work_items_try ==
    {"ewi_validate", "ewi_extract", "ewi_extract_wait", "ewi_result"}
build_issues_try_after_prepare ==
    {"jira_open", "jira_post", "jira_post_wait", "jira_close"}
build_issues_try ==
    {"jira_prepare", "jira_open", "jira_post", "jira_post_wait", "jira_close"}
TryBlock ==
    build_work_items_try \cup create_work_items_try \cup extract_work_items_try
        \cup build_issues_try

\* The except clause that handles an exception of the method's try block.
Handler(m) ==
    CASE m = "build_work_items" -> "bwi_except"
      [] m = "create_work_items" -> "cwi_except"
      [] m = "extract_work_items" -> "ewi_except"
      [] m = "build_issues" -> "jira_except"

\* The session after its `async with` block is left.
SessionAfterExitLeaks(s, exceptional) == IF exceptional THEN s ELSE "closed"
SessionAfterExit(s, exceptional) == "closed"

\* An exception with text e raised at position pc.
Raise(e) ==
    /\ session' = IF session = "open" THEN SessionAfterExit(session, TRUE) ELSE session
    /\ inflight' = 0
    /\ exc' = e
    /\ IF pc \in TryBlock
       THEN /\ pc' = Handler(method)
            /\ outcome' = outcome
       ELSE /\ pc' = "done"
            /\ outcome' = "raised"

\* `return Data(value=r)` from inside the try block: status is not assigned.
ReturnEarly(r) ==
    /\ result' = r
    /\ outcome' = "returned"
    /\ pc' = "done"

\* `data = Data(value=result); self.status = data; return data`
Finish ==
    /\ status' = result
    /\ outcome' = "returned"
    /\ pc' = "done"

(***************************************************************************)
(* The call: the host sets the input attributes and runs an output method. *)
(***************************************************************************)
Methods ==
    {"build_work_items", "build_wiql_query", "create_work_items", "extract_work_items",
     "build_issues"}

Start(m) ==
    CASE m = "build_work_items" -> "bwi_validate"
      [] m = "build_wiql_query" -> "bwq_build"
      [] m = "create_work_items" -> "cwi_validate"
      [] m = "extract_work_items" -> "ewi_validate"
      [] m = "build_issues" -> "jira_prepare"

\* The attributes a method reads and the values the model gives them.
Varied(m) ==
    CASE m = "build_work_items" ->
            [organization : StrValues, project : StrValues, pat_token : StrValues,
             use_natural_language : {"False", "True"},
             natural_language_query : NLValues, wiql_query : StrValues,
             query_type : {Absent, "flat"}]
      [] m = "build_wiql_query" ->
            [project : StrValues, use_natural_language : {"False", "True"},
             natural_language_query : NLValues, wiql_query : StrValues]
      [] m = "create_work_items" ->
            [organization : StrValues, project : StrValues, pat_token : StrValues,
             input_text : StrValues, openai_api_key : StrValues,
             work_item_type : {Absent, "User Story"}]
      [] m = "extract_work_items" ->
            [input_text : StrValues, openai_api_key : StrValues,
             work_item_type : {Absent, "User Story"}]
      [] m = "build_issues" ->
            [site_url : StrValues, username : StrValues, api_token : StrValues,
             jql_query : StrValues]

Call ==
    /\ method = "idle"
    /\ \E m \in Methods : \E v \in Varied(m) :
          /\ method' = m
          /\ attrs' = [a \in AttrNames |-> IF a \in DOMAIN v THEN v[a] ELSE DefaultAttrs[a]]
          /\ pc' = Start(m)
    /\ UNCHANGED <<session, opened, inflight, reqlog, llmlog, items, idx, created, fetched,
                   exc, caught, result, outcome, status>>
    /\ UNCHANGED <<earlier, priorityVars, registryVars, wiqlVars, initVars>>

InitCall ==
    /\ method = "idle"
    /\ pc = "idle"
    /\ attrs = DefaultAttrs
    /\ session = "none"
    /\ opened = 0
    /\ inflight = 0
    /\ reqlog = <<>>
    /\ llmlog = <<>>
    /\ items = <<>>
    /\ idx = 0
    /\ created = <<>>
    /\ fetched = <<>>
    /\ exc = ""
    /\ caught = FALSE
    /\ result = NoResult
    /\ outcome = "running"
    /\ status = NoStatus
    /\ earlier = NoEarlier

(***************************************************************************)
(* Strings and values of Python.  A string that the code inspects          *)
(* character by character is a sequence of characters.                     *)
(***************************************************************************)
\* Python values the LLM's JSON or a params mapping may hold
PyStr(t) == [type |-> "str", s |-> t]
PyInt(n) == [type |-> "int", n |-> n]
PyBool(b) == [type |-> "bool", b |-> b]
PyList(l) == [type |-> "list", items |-> l]
PyTuple(l) == [type |-> "tuple", items |-> l]
PyDict(keys, field, descending) ==
    [type |-> "dict", keys |-> keys, field |-> field, descending |-> descending]

\* bool(x)
Truthy(x) ==
    CASE x.type = "str" -> x.s # <<>>
      [] x.type = "int" -> x.n # 0
      [] x.type = "bool" -> x.b
      [] x.type \in {"list", "tuple"} -> x.items # <<>>
      [] x.type = "dict" -> x.keys # {}

UpperCase == <<"A", "B", "C", "D", "E", "F", "G", "H", "I", "J", "K", "L", "M",
               "N", "O", "P", "Q", "R", "S", "T", "U", "V", "W", "X", "Y", "Z">>
LowerCase == <<"a", "b", "c", "d", "e", "f", "g", "h", "i", "j", "k", "l", "m",
               "n", "o", "p", "q", "r", "s", "t", "u", "v", "w", "x", "y", "z">>
DecimalDigits == <<"0", "1", "2", "3", "4", "5", "6", "7", "8", "9">>
SuperscriptDigits == {"sup2"}

\* str.lower(), one character
LowerChar(c) ==
    IF \E i \in DOMAIN UpperCase : UpperCase[i] = c
    THEN LowerCase[CHOOSE i \in DOMAIN UpperCase : UpperCase[i] = c]
    ELSE c

\* str.lower()
lower(s) == [i \in DOMAIN s |-> LowerChar(s[i])]

IsDecimalChar(c) == \E i \in DOMAIN DecimalDigits : DecimalDigits[i] = c

\* str.isdigit(): not empty and every character is a digit character
isdigit(s) ==
    /\ s # <<>>
    /\ \A i \in DOMAIN s : IsDecimalChar(s[i]) \/ s[i] \in SuperscriptDigits

DigitValue(c) == (CHOOSE i \in DOMAIN DecimalDigits : DecimalDigits[i] = c) - 1

\* int(s) of a string that int() accepts
RECURSIVE int(_)
int(s) ==
    IF s = <<>> THEN 0
    ELSE 10 * int(SubSeq(s, 1, Len(s) - 1)) + DigitValue(s[Len(s)])

\* whether int(s) raises ValueError, for a string of digit characters
IntRaises(s) == \E i \in DOMAIN s : ~IsDecimalChar(s[i])

\* `sub in s`
Contains(s, sub) ==
    \E i \in 0..(Len(s) - Len(sub)) : SubSeq(s, i + 1, i + Len(sub)) = sub

Returns(n) == [ran |-> TRUE, raised |-> FALSE, value |-> n]
ValueError == [ran |-> TRUE, raised |-> TRUE, value |-> 0]
NotRun == [ran |-> FALSE, raised |-> FALSE, value |-> 0]

\* lines 444-465
parse_priority(string) ==
    LET s == lower(string) IN
    IF isdigit(s) /\ IntRaises(s) THEN ValueError
    ELSE IF isdigit(s) /\ int(s) >= 1 /\ int(s) <= 4 THEN Returns(int(s))
    ELSE IF Contains(s, <<"c", "r", "i", "t", "i", "c", "a", "l">>)
              \/ Contains(s, <<"h", "i", "g", "h", "e", "s", "t">>) THEN Returns(1)
    ELSE IF Contains(s, <<"h", "i", "g", "h">>) THEN Returns(2)
    ELSE IF Contains(s, <<"m", "e", "d", "i", "u", "m">>)
              \/ Contains(s, <<"n", "o", "r", "m", "a", "l">>) THEN Returns(3)
    ELSE IF Contains(s, <<"l", "o", "w">>)
              \/ Contains(s, <<"l", "o", "w", "e", "s", "t">>) THEN Returns(4)
    ELSE Returns(3)

(***************************************************************************)
(* The WIQL builders of AzureDevOpsComponent.                              *)
(* A text is a sequence of pieces; a single quote and an asterisk are      *)
(* always pieces of their own, so that a quote inside a value is the same  *)
(* piece as the quote that delimits a literal.  The natural-language query *)
(* is a sequence of characters, as the strings of _parse_priority are.     *)
(***************************************************************************)
Quote == "'"
Star == "*"

\* isinstance(x, int): bool is a subclass of int
IsInt(x) == x.type \in {"int", "bool"}
IntValue(x) == IF x.type = "int" THEN x.n ELSE IF x.b THEN 1 ELSE 0

\* str(x) as an f-string renders it, for the values the builders interpolate
Format(x) ==
    CASE x.type = "str" -> x.s
      [] x.type = "int" -> <<ToString(x.n)>>
      [] x.type = "bool" -> IF x.b THEN <<"True">> ELSE <<"False">>

\* f"'{v}'"
Literal(v) == <<Quote>> \o v \o <<Quote>>

\* sep.join(parts)
RECURSIVE Join(_, _)
Join(parts, sep) ==
    IF parts = <<>> THEN <<>>
    ELSE IF Len(parts) = 1 THEN parts[1]
    ELSE parts[1] \o sep \o Join(Tail(parts), sep)

\* a replace() that removes nothing
RemoveStarsKeeps(t) == t

\* s.replace('*', '')
RECURSIVE RemoveStars(_)
RemoveStars(t) ==
    IF t = <<>> THEN <<>>
    ELSE IF Head(t) = Star THEN RemoveStars(Tail(t))
    ELSE <<Head(t)>> \o RemoveStars(Tail(t))

\* '*' in s
HasStar(t) == \E i \in DOMAIN t : t[i] = Star

\* lines 384-387
DefaultFields ==
    <<PyStr(<<"System.Id">>), PyStr(<<"System.Title">>), PyStr(<<"System.State">>),
      PyStr(<<"System.WorkItemType">>), PyStr(<<"System.AssignedTo">>),
      PyStr(<<"System.Tags">>), PyStr(<<"System.Description">>)>>

\* `key in params and params[key]`
Supplied(params, key) == key \in DOMAIN params /\ Truthy(params[key])

\* lines 384-395: the SELECT clause
SelectClause(params) ==
    LET given == IF "fields" \in DOMAIN params THEN params["fields"] ELSE PyList(<<>>)
        fields == IF Truthy(given) THEN given.items ELSE DefaultFields
        field_clause ==
            Join([i \in DOMAIN fields |-> <<"[">> \o Format(fields[i]) \o <<"]">>], <<", ">>)
    IN IF "maxItems" \in DOMAIN params /\ IsInt(params["maxItems"])
            /\ IntValue(params["maxItems"]) > 0
       THEN <<"SELECT TOP ">> \o Format(params["maxItems"]) \o <<" ">> \o field_clause
       ELSE <<"SELECT ">> \o field_clause

\* lines 408-417 and 420-429: the conditions of workItemTypes and of states
EqualsOrIn(params, key, field) ==
    IF ~Supplied(params, key) THEN <<>>
    ELSE LET x == params[key] IN
         IF x.type = "list" /\ Len(x.items) > 0
         THEN IF Len(x.items) = 1
              THEN <<(<<field, " = ">> \o Literal(Format(x.items[1])))>>
              ELSE <<(<<field, " IN (">>
                        \o Join([i \in DOMAIN x.items |-> Literal(Format(x.items[i]))],
                                <<", ">>)
                        \o <<")">>)>>
         ELSE IF x.type = "str" THEN <<(<<field, " = ">> \o Literal(x.s))>>
         ELSE <<>>

\* lines 432-433
AssignedToCondition(params) ==
    IF ~Supplied(params, "assignedTo") THEN <<>>
    ELSE <<(<<"[System.AssignedTo]", " = ">> \o Literal(Format(params["assignedTo"])))>>

\* lines 436-443
AreaPathCondition(params) ==
    IF ~Supplied(params, "areaPath") THEN <<>>
    ELSE LET area_path == params["areaPath"].s IN
         IF HasStar(area_path)
         THEN <<(<<"[System.AreaPath]", " UNDER ">> \o Literal(RemoveStars(area_path)))>>
         ELSE <<(<<"[System.AreaPath]", " = ">> \o Literal(area_path))>>

\* lines 446-455
IterationPathCondition(params) ==
    IF ~Supplied(params, "iterationPath") THEN <<>>
    ELSE LET iteration_path == params["iterationPath"].s IN
         IF iteration_path = <<"@CurrentIteration">>
         THEN <<(<<"[System.IterationPath]", " = ", "@CurrentIteration">>)>>
         ELSE IF HasStar(iteration_path)
         THEN <<(<<"[System.IterationPath]", " UNDER ">>
                   \o Literal(RemoveStars(iteration_path)))>>
         ELSE <<(<<"[System.IterationPath]", " = ">> \o Literal(iteration_path))>>

\* lines 458-464
TagsCondition(params) ==
    IF ~Supplied(params, "tags") THEN <<>>
    ELSE LET tags == params["tags"] IN
         IF tags.type = "list" /\ Len(tags.items) > 0
         THEN <<Join([i \in DOMAIN tags.items |->
                        <<"[System.Tags]", " CONTAINS ">> \o Literal(Format(tags.items[i]))],
                     <<" AND ">>)>>
         ELSE IF tags.type = "str"
         THEN <<(<<"[System.Tags]", " CONTAINS ">> \o Literal(tags.s))>>
         ELSE <<>>

\* lines 472-473 and 475-476: the condition of one search term
TermCondition(term) ==
    <<"(">> \o <<"[System.Title]", " CONTAINS ">> \o Literal(term) \o <<" OR ">>
      \o <<"[System.Description]", " CONTAINS ">> \o Literal(term) \o <<")">>

\* lines 467-476
SearchTermsConditions(params) ==
    IF ~Supplied(params, "searchTerms") THEN <<>>
    ELSE LET terms == params["searchTerms"] IN
         IF terms.type = "list" /\ Len(terms.items) > 0
         THEN [i \in DOMAIN terms.items |-> TermCondition(Format(terms.items[i]))]
         ELSE IF terms.type = "str" THEN <<TermCondition(terms.s)>>
         ELSE <<>>

\* lines 401-476: where_conditions
WhereConditions(params, project) ==
    <<(<<"[System.TeamProject]", " = ">> \o Literal(project))>>
      \o EqualsOrIn(params, "workItemTypes", "[System.WorkItemType]")
      \o EqualsOrIn(params, "states", "[System.State]")
      \o AssignedToCondition(params)
      \o AreaPathCondition(params)
      \o IterationPathCondition(params)
      \o TagsCondition(params)
      \o SearchTermsConditions(params)

\* lines 488-490 and 493-495: the term of one orderBy item, <<>> when it has none
OrderTerm(item) ==
    IF item.type = "dict" /\ "field" \in item.keys
    THEN << <<"[">> \o item.field \o <<"]">>
              \o <<" ", IF "descending" \in item.keys /\ item.descending
                        THEN "DESC" ELSE "ASC">> >>
    ELSE <<>>

RECURSIVE OrderTerms(_)
OrderTerms(its) ==
    IF its = <<>> THEN <<>> ELSE OrderTerm(Head(its)) \o OrderTerms(Tail(its))

\* lines 482-499
OrderByClause(params) ==
    LET terms ==
          IF ~Supplied(params, "orderBy") THEN <<>>
          ELSE LET order_by == params["orderBy"] IN
               IF order_by.type = "list" /\ Len(order_by.items) > 0
               THEN OrderTerms(order_by.items)
               ELSE OrderTerm(order_by)
    IN IF terms # <<>> THEN <<" ORDER BY ">> \o Join(terms, <<", ">>)
       ELSE <<" ORDER BY ", "[System.ChangedDate]", " ", "DESC">>

\* the statements of the try block that raise TypeError: '*' in a value that is
\* no string (lines 438, 450)
BuildRaises(params) ==
    \/ Supplied(params, "areaPath") /\ params["areaPath"].type # "str"
    \/ Supplied(params, "iterationPath") /\ params["iterationPath"].type # "str"

WiqlReturns(q) == [raised |-> FALSE, query |-> q]
WiqlRaises == [raised |-> TRUE, query |-> <<>>]

\* lines 380-508: _build_wiql_query(params); project is getattr(self, 'project', '') or ''
_build_wiql_query(params, project) ==
    IF BuildRaises(params) THEN WiqlRaises
    ELSE WiqlReturns(SelectClause(params) \o <<" ", "FROM WorkItems">>
                       \o <<" WHERE ">> \o Join(WhereConditions(params, project), <<" AND ">>)
                       \o OrderByClause(params))

\* the keywords of lines 332-349, as character sequences
Keyword ==
    [bug |-> <<"b", "u", "g">>,
     task |-> <<"t", "a", "s", "k">>,
     tasks |-> <<"t", "a", "s", "k", "s">>,
     story |-> <<"s", "t", "o", "r", "y">>,
     userstory |-> <<"u", "s", "e", "r", " ", "s", "t", "o", "r", "y">>,
     open |-> <<"o", "p", "e", "n">>,
     active |-> <<"a", "c", "t", "i", "v", "e">>,
     new |-> <<"n", "e", "w">>,
     closed |-> <<"c", "l", "o", "s", "e", "d">>,
     done |-> <<"d", "o", "n", "e">>,
     complete |-> <<"c", "o", "m", "p", "l", "e", "t", "e">>]

\* the clause, were IN used for one value too
ClauseOfAlwaysIn(field, values) ==
    <<field, " IN (">>
      \o Join([i \in DOMAIN values |-> Literal(<<values[i]>>)], <<", ">>)
      \o <<")">>

\* f"[System.X] = 'a'" for one value, f"[System.X] IN ('a', 'b')" for several
\* (lines 353-357 and 362-366)
ClauseOf(field, values) ==
    IF Len(values) = 1 THEN <<field, " = ">> \o Literal(<<values[1]>>)
    ELSE <<field, " IN (">>
           \o Join([i \in DOMAIN values |-> Literal(<<values[i]>>)], <<", ">>)
           \o <<")">>

\* lines 331-341: work_item_types
DetectedTypes(query_lower) ==
    LET found ==
          (IF Contains(query_lower, Keyword.bug) THEN <<"Bug">> ELSE <<>>)
            \o (IF Contains(query_lower, Keyword.task) \/ Contains(query_lower, Keyword.tasks)
                THEN <<"Task">> ELSE <<>>)
            \o (IF Contains(query_lower, Keyword.story) \/ Contains(query_lower, Keyword.userstory)
                THEN <<"User Story">> ELSE <<>>)
    IN IF found = <<>> THEN <<"Task", "Bug", "User Story">> ELSE found

\* lines 344-350: states
DetectedStates(query_lower) ==
    (IF Contains(query_lower, Keyword.open) \/ Contains(query_lower, Keyword.active)
     THEN <<"Active">> ELSE <<>>)
      \o (IF Contains(query_lower, Keyword.new) THEN <<"New">> ELSE <<>>)
      \o (IF Contains(query_lower, Keyword.closed) \/ Contains(query_lower, Keyword.done)
             \/ Contains(query_lower, Keyword.complete)
          THEN <<"Closed">> ELSE <<>>)

\* line 378: the query returned when an exception occurs
FallbackQuery ==
    <<"SELECT ", "[System.Id], [System.Title]", " ", "FROM WorkItems", " WHERE ",
      "[System.WorkItemType]", " = ", Quote, "Task", Quote,
      " ORDER BY ", "[System.ChangedDate]", " ", "DESC">>

\* lines 319-378: _generate_wiql_from_natural_language(); the attribute
\* natural_language_query is a string or (type "none") has no lower()
_generate_wiql_from_natural_language(natural_language_query, project) ==
    IF natural_language_query.type # "str" THEN WiqlReturns(FallbackQuery)
    ELSE LET query_lower == lower(natural_language_query.s)
             work_item_types == DetectedTypes(query_lower)
             states == DetectedStates(query_lower)
             type_clause == ClauseOf("[System.WorkItemType]", work_item_types)
             state_clause == IF states # <<>>
                             THEN <<" AND ">> \o ClauseOf("[System.State]", states)
                             ELSE <<>>
         IN WiqlReturns(
              <<"SELECT ",
                "[System.Id], [System.Title], [System.State], [System.WorkItemType]",
                " ", "FROM WorkItems", " WHERE ", "[System.TeamProject]", " = ">>
                \o Literal(project) \o <<" AND ">> \o type_clause \o state_clause
                \o <<" ORDER BY ", "[System.ChangedDate]", " ", "DESC">>)

\* the text as one string
RECURSIVE Text(_)
Text(t) == IF t = <<>> THEN "" ELSE Head(t) \o Text(Tail(t))

(***************************************************************************)
(* External answers.  status 0 stands for "no response": the request       *)
(* raised (connection error).                                              *)
(***************************************************************************)
WorkItemIds == {7, 12}
IdSeqs == UNION {[1..n -> WorkItemIds] : n \in 0..MaxIds}

Pending == [status |-> -1, body |-> "pending", ids |-> <<>>]
Raised == [status |-> 0, body |-> "none", ids |-> <<>>]
NotOk == {[status |-> s, body |-> "text", ids |-> <<>>] : s \in {201, 500}}
Ok(b, s) == [status |-> HTTP_OK, body |-> b, ids |-> s]

\* Answers to the WIQL POST: a 200 body is invalid JSON, a JSON object without
\* "workItems", one whose work item has no "id", or a list of work item ids.
WiqlResponses ==
    {Raised} \cup NotOk
      \cup {Ok(b, <<>>) : b \in {"invalid_json", "no_workItems_key", "item_without_id"}}
      \cup {Ok("workItems", s) : s \in IdSeqs}

\* The "value" list of a detail response: its work items are assigned to an
\* identity object, unassigned (no System.AssignedTo field), assigned to an
\* identity object without displayName, or name their people by strings.
DetailBodies == {"value", "value_unassigned", "value_no_displayName", "value_names"}

\* Answers to the work item detail GET for the ids asked.
DetailResponses(asked) ==
    {Raised} \cup NotOk
      \cup {Ok(b, <<>>) : b \in {"invalid_json", "no_value_key"}}
      \cup {Ok(b, asked) : b \in DetailBodies}

Request(verb, target, ids) ==
    [verb |-> verb, target |-> target, ids |-> ids, session |-> session,
     response |-> Pending]

\* The request is sent and awaited.
Send(req) ==
    /\ reqlog' = Append(reqlog, req)
    /\ inflight' = inflight + 1

\* A call that repeats an earlier call is given the answers of that call: r is
\* the answer the k-th request of the earlier call had, if it had one.
Replays(given, k, r) ==
    earlier # NoEarlier /\ k <= Len(given) => r = given[k]

\* The awaited request is answered by r.
Answer(r) ==
    /\ earlier # NoEarlier => Replays(earlier.responses.http, Len(reqlog), r)
    /\ reqlog' = [reqlog EXCEPT ![Len(reqlog)].response = r]

(***************************************************************************)
(* AzureDevOpsComponent.build_work_items                                   *)
(***************************************************************************)
build_work_items_required_reordered == <<"project", "organization", "pat_token">>
build_work_items_required == <<"organization", "project", "pat_token">>

\* ",".join(map(str, work_item_ids))
JoinIdsFirstOnly(s) == IF s = <<>> THEN "" ELSE ToString(s[1])
RECURSIVE JoinIds(_)
JoinIds(s) ==
    IF s = <<>> THEN ""
    ELSE IF Len(s) = 1 THEN ToString(s[1])
    ELSE ToString(s[1]) \o "," \o JoinIds(Tail(s))

\* The JSON of the detail response.  A key a JSON object does not have:
NoField == [type |-> "absent"]
PyNone == [type |-> "NoneType"]
Identity(displayName) == [type |-> "identity", displayName |-> displayName]

FieldNames ==
    {"System.Title", "System.State", "System.WorkItemType", "System.AssignedTo",
     "System.Description", "System.CreatedDate", "System.CreatedBy",
     "System.ChangedDate", "System.Tags", "System.IterationPath", "System.AreaPath"}

\* The work item with the id in a detail response of the given body; a work
\* item without tags has no System.Tags.
ApiItem(id, body) ==
    [id |-> PyInt(id),
     url |-> PyStr(<<"https://dev.azure.com/x/_apis/wit/workItems/", ToString(id)>>),
     fields |-> [f \in FieldNames |->
        CASE f = "System.AssignedTo" ->
               (CASE body = "value" -> Identity(PyStr(<<"Ann">>))
                  [] body = "value_unassigned" -> NoField
                  [] body = "value_no_displayName" -> Identity(NoField)
                  [] body = "value_names" -> PyStr(<<"Ann">>))
          [] f = "System.CreatedBy" ->
               IF body = "value_names" THEN PyStr(<<"Bob">>)
               ELSE Identity(PyStr(<<"Bob">>))
          [] f = "System.Tags" -> NoField
          [] f = "System.Description" ->
               IF body = "value_unassigned" THEN NoField ELSE PyStr(<<"d">>)
          [] OTHER -> PyStr(<<"v">>)]]

\* details_response.get("value", [])
DetailsValue(r) == [i \in 1..Len(r.ids) |-> ApiItem(r.ids[i], r.body)]

\* fields.get(k, default)
FieldGet(fields, k, default) == IF fields[k] = NoField THEN default ELSE fields[k]

\* str(x)
Str(x) == IF x.type = "NoneType" THEN "None" ELSE Text(Format(x))

\* lines 284-291: fields.get(k), and the displayName of an identity object
PersonOf(fields, k) ==
    LET person == FieldGet(fields, k, PyNone) IN
    IF person.type = "identity"
    THEN IF person.displayName = NoField THEN PyStr(<<>>) ELSE person.displayName
    ELSE person

\* lines 294-308: the flat work item of an item of the "value" list
flat_work_item(item) ==
    LET fields == item.fields
        get(k) == Str(FieldGet(fields, k, PyStr(<<>>)))
    IN  [id |-> Str(item.id),
         url |-> Str(item.url),
         title |-> get("System.Title"),
         state |-> get("System.State"),
         type |-> get("System.WorkItemType"),
         assigned_to |-> Str(PersonOf(fields, "System.AssignedTo")),
         description |-> get("System.Description"),
         created_date |-> get("System.CreatedDate"),
         created_by |-> Str(PersonOf(fields, "System.CreatedBy")),
         changed_date |-> get("System.ChangedDate"),
         tags |-> get("System.Tags"),
         iteration_path |-> get("System.IterationPath"),
         area_path |-> get("System.AreaPath")]

\* lines 280-310: the flat work items built from the "value" list
FlatWorkItems(value) == [i \in DOMAIN value |-> flat_work_item(value[i])]

\* lines 145-152: the required parameters
bwi_validate ==
    /\ pc = "bwi_validate"
    /\ LET missing == FirstMissing(build_work_items_required) IN
         IF missing # ""
         THEN ReturnEarly([status |-> "error",
                           message |-> "Missing required parameter: " \o missing,
                           work_items |-> <<>>])
         ELSE /\ pc' = "bwi_query"
              /\ UNCHANGED <<result, outcome>>
    /\ UNCHANGED <<method, attrs, session, opened, inflight, reqlog, llmlog, items, idx,
                   created, fetched, exc, caught, status>>
    /\ UNCHANGED <<earlier, priorityVars, registryVars, wiqlVars, initVars>>

\* The characters of an attribute that is a string.
Chars(v) ==
    CASE v = "x" -> <<"x">>
      [] v = "open bugs" -> <<"o", "p", "e", "n", " ", "b", "u", "g", "s">>
      [] OTHER -> <<>>

\* The attribute as a value of Python.
ValueOf(v) == IF v = NotAString THEN PyInt(5) ELSE PyStr(Chars(v))

\* line 166: self._generate_wiql_from_natural_language()
GeneratedForCall ==
    _generate_wiql_from_natural_language(ValueOf(attrs["natural_language_query"]),
                                         Chars(attrs["project"]))

\* lines 155, 166, 186: the local wiql_query
wiql_query ==
    IF hasattr("use_natural_language") /\ ~Falsy(attrs["use_natural_language"])
    THEN Text(GeneratedForCall.query)
    ELSE attrs["wiql_query"]

\* lines 155-186: the query comes from the natural-language text or is wiql_query
bwi_query ==
    /\ pc = "bwi_query"
    /\ IF hasattr("use_natural_language") /\ ~Falsy(attrs["use_natural_language"])
       THEN IF Missing("natural_language_query")
            THEN ReturnEarly([status |-> "error",
                      message |-> "Natural language query is required when 'Use Natural Language' is enabled",
                      work_items |-> <<>>])
            ELSE IF GeneratedForCall.raised
            THEN ReturnEarly([status |-> "error",
                      message |-> "Natural language processing error: " \o "Exception",
                      work_items |-> <<>>])
            ELSE /\ pc' = "bwi_prepare"
                 /\ UNCHANGED <<result, outcome>>
       ELSE IF Missing("wiql_query")
            THEN ReturnEarly([status |-> "error",
                      message |-> "WIQL query is required when not using natural language",
                      work_items |-> <<>>])
            ELSE /\ pc' = "bwi_prepare"
                 /\ UNCHANGED <<result, outcome>>
    /\ UNCHANGED <<method, attrs, session, opened, inflight, reqlog, llmlog, items, idx,
                   created, fetched, exc, caught, status>>
    /\ UNCHANGED <<earlier, priorityVars, registryVars, wiqlVars, initVars>>

\* lines 189-202: url, headers and body; reading self.query_type raises when absent
bwi_prepare ==
    /\ pc = "bwi_prepare"
    /\ IF ~hasattr("query_type")
       THEN Raise("AttributeError")
       ELSE /\ pc' = "bwi_open"
            /\ UNCHANGED <<session, inflight, exc, outcome>>
    /\ UNCHANGED <<method, attrs, opened, reqlog, llmlog, items, idx, created, fetched,
                   caught, result, status>>
    /\ UNCHANGED <<earlier, priorityVars, registryVars, wiqlVars, initVars>>

\* line 205: async with aiohttp.ClientSession() as session
bwi_open ==
    /\ pc = "bwi_open"
    /\ session' = "open"
    /\ opened' = opened + 1
    /\ pc' = "bwi_post"
    /\ UNCHANGED <<method, attrs, inflight, reqlog, llmlog, items, idx, created, fetched,
                   exc, caught, result, outcome, status>>
    /\ UNCHANGED <<earlier, priorityVars, registryVars, wiqlVars, initVars>>

\* lines 206-210: session.post of the WIQL query
bwi_post ==
    /\ pc = "bwi_post"
    /\ Send(Request("POST", "wiql", wiql_query))
    /\ pc' = "bwi_post_wait"
    /\ UNCHANGED <<method, attrs, session, opened, llmlog, items, idx, created, fetched,
                   exc, caught, result, outcome, status>>
    /\ UNCHANGED <<earlier, priorityVars, registryVars, wiqlVars, initVars>>

\* lines 210-231: the answer to the WIQL POST
bwi_post_wait ==
    /\ pc = "bwi_post_wait"
    /\ \E r \in WiqlResponses :
         /\ Answer(r)
         /\ CASE r.status = 0 ->
                   /\ Raise("ClientConnectionError")
                   /\ UNCHANGED result
              [] r.status # 0 /\ r.status # HTTP_OK ->
                   /\ result' = [status |-> "error",
                                 message |-> "API request failed with status "
                                                \o ToString(r.status),
                                 error |-> r.body,
                                 work_items |-> <<>>]
                   /\ inflight' = 0
                   /\ pc' = "bwi_close"
                   /\ UNCHANGED <<session, exc, outcome>>
              [] r.status = HTTP_OK /\ r.body = "invalid_json" ->
                   /\ Raise("JSONDecodeError")
                   /\ UNCHANGED result
              [] r.status = HTTP_OK /\ r.body = "item_without_id" ->
                   /\ Raise("KeyError")
                   /\ UNCHANGED result
              [] r.status = HTTP_OK /\ r.body \in {"no_workItems_key", "workItems"} ->
                   /\ inflight' = 0
                   /\ IF r.ids = <<>>
                      THEN /\ result' = [status |-> "success",
                                         message |-> "No work items found",
                                         work_items |-> <<>>]
                           /\ pc' = "bwi_close"
                      ELSE /\ pc' = "bwi_get"
                           /\ UNCHANGED result
                   /\ UNCHANGED <<session, exc, outcome>>
    /\ UNCHANGED <<method, attrs, opened, llmlog, items, idx, created, fetched, caught,
                   status>>
    /\ UNCHANGED <<earlier, priorityVars, registryVars, wiqlVars, initVars>>

\* The ids parsed from the answer to the WIQL POST.
work_item_ids == reqlog[1].response.ids

\* lines 256-270 (_fetch_work_item_details): one GET for all the ids
bwi_get ==
    /\ pc = "bwi_get"
    /\ Send(Request("GET", "workitems", JoinIds(work_item_ids)))
    /\ pc' = "bwi_get_wait"
    /\ UNCHANGED <<method, attrs, session, opened, llmlog, items, idx, created, fetched,
                   exc, caught, result, outcome, status>>
    /\ UNCHANGED <<earlier, priorityVars, registryVars, wiqlVars, initVars>>

\* lines 270-317 (_fetch_work_item_details): a failure of the GET gives []
bwi_get_wait ==
    /\ pc = "bwi_get_wait"
    /\ \E r \in DetailResponses(work_item_ids) :
         /\ Answer(r)
         /\ inflight' = 0
         /\ pc' = "bwi_result"
         /\ CASE r.status = HTTP_OK /\ r.body \in DetailBodies ->
                   /\ fetched' = FlatWorkItems(DetailsValue(r))
                   /\ UNCHANGED caught
              [] r.status = HTTP_OK /\ r.body = "no_value_key" ->
                   /\ fetched' = <<>>
                   /\ UNCHANGED caught
              [] r.status = HTTP_OK /\ r.body = "invalid_json" ->
                   /\ fetched' = <<>>
                   /\ caught' = TRUE
              [] r.status = 0 ->
                   /\ fetched' = <<>>
                   /\ caught' = TRUE
              [] r.status # 0 /\ r.status # HTTP_OK ->
                   /\ fetched' = <<>>
                   /\ UNCHANGED caught
    /\ UNCHANGED <<method, attrs, session, opened, llmlog, items, idx, created, exc,
                   result, outcome, status>>
    /\ UNCHANGED <<earlier, priorityVars, registryVars, wiqlVars, initVars>>

\* lines 237-241: the result when ids were found
bwi_result ==
    /\ pc = "bwi_result"
    /\ result' = [status |-> "success",
                  message |-> "Found " \o ToString(Len(fetched)) \o " work items",
                  work_items |-> fetched]
    /\ pc' = "bwi_close"
    /\ UNCHANGED <<method, attrs, session, opened, inflight, reqlog, llmlog, items, idx,
                   created, fetched, exc, caught, outcome, status>>
    /\ UNCHANGED <<earlier, priorityVars, registryVars, wiqlVars, initVars>>

\* the end of the `async with` block of line 205
bwi_close ==
    /\ pc = "bwi_close"
    /\ session' = SessionAfterExit(session, FALSE)
    /\ pc' = "bwi_finish"
    /\ UNCHANGED <<method, attrs, opened, inflight, reqlog, llmlog, items, idx, created,
                   fetched, exc, caught, result, outcome, status>>
    /\ UNCHANGED <<earlier, priorityVars, registryVars, wiqlVars, initVars>>

\* lines 242-249: except Exception
bwi_except ==
    /\ pc = "bwi_except"
    /\ result' = [status |-> "error",
                  message |-> "Error fetching work items: " \o exc,
                  work_items |-> <<>>]
    /\ caught' = TRUE
    /\ pc' = "bwi_finish"
    /\ UNCHANGED <<method, attrs, session, opened, inflight, reqlog, llmlog, items, idx,
                   created, fetched, exc, outcome, status>>
    /\ UNCHANGED <<earlier, priorityVars, registryVars, wiqlVars, initVars>>

\* lines 252-254
bwi_finish ==
    /\ pc = "bwi_finish"
    /\ Finish
    /\ UNCHANGED <<method, attrs, session, opened, inflight, reqlog, llmlog, items, idx,
                   created, fetched, exc, caught, result>>
    /\ UNCHANGED <<earlier, priorityVars, registryVars, wiqlVars, initVars>>


\* lines 510-527: build_wiql_query returns the query "to show in the UI";
\* nothing in its try block raises
DefaultQueryForUI ==
    "SELECT [System.Id], [System.Title], [System.State], [System.WorkItemType] "
      \o "FROM WorkItems WHERE [System.WorkItemType] IN ('Task', 'Bug', 'User Story') "
      \o "ORDER BY [System.ChangedDate] DESC"

bwq_build ==
    /\ pc = "bwq_build"
    /\ ReturnEarly([query |-> DefaultQueryForUI, status |-> "success"])
    /\ UNCHANGED <<method, attrs, session, opened, inflight, reqlog, llmlog, items, idx,
                   created, fetched, exc, caught, status>>
    /\ UNCHANGED <<earlier, priorityVars, registryVars, wiqlVars, initVars>>

(***************************************************************************)
(* AzureDevOpsWriterComponent                                              *)
(***************************************************************************)
create_work_items_required ==
    <<"organization", "project", "pat_token", "input_text", "openai_api_key">>

\* The item has no "priority" key.
NoPriority == [type |-> "absent"]

\* Values of the "priority" key of an extracted item: the schema of lines
\* 303-306 asks for a string, and json.loads gives whatever the LLM wrote.
Priorities ==
    {NoPriority, PyStr(<<"H", "i", "g", "h">>), PyStr(<<"sup2">>), PyStr(<<>>), PyInt(2)}

\* Items the LLM may extract: dicts with a title and a description, either of
\* which the LLM may leave out, and a priority.
ExtractedItems ==
    {[title |-> "T1", description |-> "d", priority |-> p] : p \in Priorities}
      \cup {[title |-> "T2", description |-> "d", priority |-> NoPriority],
            [title |-> Absent, description |-> "d", priority |-> NoPriority]}
ItemSeqs == UNION {[1..n -> ExtractedItems] : n \in 0..MaxItems}

\* Outcomes of the chat completion call of _extract_work_items_with_llm.
LlmOutcomes == {"raise", "no_function_call", "bad_json", "items"}

\* lines 256-321 (_extract_work_items_with_llm): the prompts are built and the
\* chat completion is awaited; an exception inside gives []
ExtractSend(next, skip) ==
    IF ~hasattr("work_item_type")
    THEN /\ items' = <<>>
         /\ caught' = TRUE
         /\ pc' = skip
         /\ UNCHANGED <<llmlog, inflight>>
    ELSE /\ llmlog' = Append(llmlog, "pending")
         /\ inflight' = inflight + 1
         /\ pc' = next
         /\ UNCHANGED <<items, caught>>

\* lines 321-339 (_extract_work_items_with_llm): the answer of the LLM
ExtractAnswer(next) ==
    /\ \E o \in LlmOutcomes : \E s \in ItemSeqs :
         /\ o # "items" => s = <<>>
         /\ earlier # NoEarlier =>
                /\ Replays(earlier.responses.llm, Len(llmlog), o)
                /\ Len(llmlog) <= Len(earlier.responses.llm) =>
                       s = earlier.responses.extracted
         /\ llmlog' = [llmlog EXCEPT ![Len(llmlog)] = o]
         /\ items' = s
         /\ caught' = (caught \/ o \in {"raise", "bad_json"})
    /\ inflight' = 0
    /\ pc' = next

\* lines 153-160
cwi_validate ==
    /\ pc = "cwi_validate"
    /\ LET missing == FirstMissing(create_work_items_required) IN
         IF missing # ""
         THEN ReturnEarly([status |-> "error",
                           message |-> "Missing required parameter: " \o missing,
                           created_items |-> <<>>])
         ELSE /\ pc' = "cwi_extract"
              /\ UNCHANGED <<result, outcome>>
    /\ UNCHANGED <<method, attrs, session, opened, inflight, reqlog, llmlog, items, idx,
                   created, fetched, exc, caught, status>>
    /\ UNCHANGED <<earlier, priorityVars, registryVars, wiqlVars, initVars>>

\* line 163
cwi_extract ==
    /\ pc = "cwi_extract"
    /\ ExtractSend("cwi_extract_wait", "cwi_check")
    /\ UNCHANGED <<method, attrs, session, opened, reqlog, idx, created, fetched, exc,
                   result, outcome, status>>
    /\ UNCHANGED <<earlier, priorityVars, registryVars, wiqlVars, initVars>>

cwi_extract_wait ==
    /\ pc = "cwi_extract_wait"
    /\ ExtractAnswer("cwi_check")
    /\ UNCHANGED <<method, attrs, session, opened, reqlog, idx, created, fetched, exc,
                   result, outcome, status>>
    /\ UNCHANGED <<earlier, priorityVars, registryVars, wiqlVars, initVars>>

\* lines 165-171: nothing extracted
cwi_check ==
    /\ pc = "cwi_check"
    /\ IF items = <<>>
       THEN IF ~hasattr("work_item_type")
            THEN /\ Raise("AttributeError")
                 /\ UNCHANGED result
            ELSE /\ ReturnEarly([status |-> "warning",
                        message |-> "No " \o attrs["work_item_type"]
                                       \o " items were extracted from the input text",
                        created_items |-> <<>>])
                 /\ UNCHANGED <<session, inflight, exc>>
       ELSE /\ pc' = "cwi_open"
            /\ UNCHANGED <<session, inflight, exc, result, outcome>>
    /\ UNCHANGED <<method, attrs, opened, reqlog, llmlog, items, idx, created, fetched,
                   caught, status>>
    /\ UNCHANGED <<earlier, priorityVars, registryVars, wiqlVars, initVars>>

\* lines 343-354 (_create_work_items_in_azure_devops): headers, then the session
cwi_open ==
    /\ pc = "cwi_open"
    /\ session' = "open"
    /\ opened' = opened + 1
    /\ idx' = 1
    /\ pc' = "cwi_item"
    /\ UNCHANGED <<method, attrs, inflight, reqlog, llmlog, items, created, fetched, exc,
                   caught, result, outcome, status>>
    /\ UNCHANGED <<earlier, priorityVars, registryVars, wiqlVars, initVars>>

\* lines 399-410: what the priority of the item does to the operations.
\* _parse_priority calls .lower() on the value, which a value that is not a
\* string does not have: AttributeError, which `except ValueError` lets pass.
PriorityStep(item) ==
    IF item.priority = NoPriority \/ ~Truthy(item.priority)
    THEN [raised |-> "", parsed |-> NotRun]
    ELSE IF item.priority.type # "str"
    THEN [raised |-> "AttributeError", parsed |-> NotRun]
    ELSE [raised |-> "", parsed |-> parse_priority(item.priority.s)]

\* lines 361-419: the paths of the operations of the creation document
Operations(item) ==
    <<"System.Title", "System.Description">>
      \o (IF PriorityStep(item).parsed.ran /\ ~PriorityStep(item).parsed.raised
          THEN <<"Microsoft.VSTS.Common.Priority">>
          ELSE <<>>)

\* line 422: the creation POST of item number i
CreateRequest(i) ==
    [verb |-> "POST", target |-> "create", ids |-> items[i].title, session |-> session,
     response |-> Pending, item |-> i, operations |-> Operations(items[i]),
     priority |-> PriorityStep(items[i]).parsed.value]

\* were the try statement of line 356 around the loop: an exception ends it
AfterExceptionLeavesLoop(i) == Len(items) + 1

\* lines 436-437: the except clause is inside the loop, which goes on with
\* the item after item number i
AfterException(i) == i + 1

\* lines 355-422: the next item; a missing title or description is a KeyError,
\* a priority without .lower() an AttributeError, that the except clause of
\* line 436 logs, and the loop goes on
cwi_item ==
    /\ pc = "cwi_item"
    /\ IF idx > Len(items)
       THEN /\ pc' = "cwi_close"
            /\ UNCHANGED <<idx, reqlog, inflight, caught>>
       ELSE IF \/ items[idx].title = Absent
               \/ items[idx].description = Absent
               \/ PriorityStep(items[idx]).raised # ""
            THEN /\ idx' = AfterException(idx)
                 /\ caught' = TRUE
                 /\ UNCHANGED <<pc, reqlog, inflight>>
            ELSE /\ Send(CreateRequest(idx))
                 /\ pc' = "cwi_post_wait"
                 /\ UNCHANGED <<idx, caught>>
    /\ UNCHANGED <<method, attrs, session, opened, llmlog, items, created, fetched, exc,
                   result, outcome, status>>
    /\ UNCHANGED <<earlier, priorityVars, registryVars, wiqlVars, initVars>>

\* Answers to the creation POST; the id of the created work item is in ids.
CreateResponses ==
    {Raised} \cup NotOk \cup {Ok("invalid_json", <<>>), Ok("work_item", <<41>>)}

\* lines 422-437: the answer to the creation POST
cwi_post_wait ==
    /\ pc = "cwi_post_wait"
    /\ \E r \in CreateResponses :
         /\ Answer(r)
         /\ IF r.status = HTTP_OK /\ r.body = "work_item"
            THEN /\ created' = Append(created,
                        [id |-> r.ids[1], title |-> items[idx].title,
                         type |-> attrs["work_item_type"]])
                 /\ UNCHANGED caught
            ELSE /\ caught' = (caught \/ r.status = 0 \/ r.status = HTTP_OK)
                 /\ UNCHANGED created
         /\ idx' = IF r.status = 0 \/ (r.status = HTTP_OK /\ r.body # "work_item")
                   THEN AfterException(idx)
                   ELSE idx + 1
    /\ inflight' = 0
    /\ pc' = "cwi_item"
    /\ UNCHANGED <<method, attrs, session, opened, llmlog, items, fetched, exc, result,
                   outcome, status>>
    /\ UNCHANGED <<earlier, priorityVars, registryVars, wiqlVars, initVars>>

\* the end of the `async with` block of line 354
cwi_close ==
    /\ pc = "cwi_close"
    /\ session' = SessionAfterExit(session, FALSE)
    /\ pc' = "cwi_result"
    /\ UNCHANGED <<method, attrs, opened, inflight, reqlog, llmlog, items, idx, created,
                   fetched, exc, caught, result, outcome, status>>
    /\ UNCHANGED <<earlier, priorityVars, registryVars, wiqlVars, initVars>>

\* the message of line 187, were it to count the extracted items
CreatedMessageCountsExtracted(created_items) ==
    "Successfully created " \o ToString(Len(items)) \o " "
        \o attrs["work_item_type"] \o " items"

\* line 187
CreatedMessage(created_items) ==
    "Successfully created " \o ToString(Len(created_items)) \o " "
        \o attrs["work_item_type"] \o " items"

\* lines 177-190
cwi_result ==
    /\ pc = "cwi_result"
    /\ result' = IF created = <<>>
                 THEN [status |-> "error",
                       message |-> "Failed to create work items in Azure DevOps",
                       extracted_items |-> items,
                       created_items |-> <<>>]
                 ELSE [status |-> "success",
                       message |-> CreatedMessage(created),
                       extracted_items |-> items,
                       created_items |-> created]
    /\ pc' = "cwi_finish"
    /\ UNCHANGED <<method, attrs, session, opened, inflight, reqlog, llmlog, items, idx,
                   created, fetched, exc, caught, outcome, status>>
    /\ UNCHANGED <<earlier, priorityVars, registryVars, wiqlVars, initVars>>

\* lines 192-198: except Exception
cwi_except ==
    /\ pc = "cwi_except"
    /\ result' = [status |-> "error",
                  message |-> "Error creating work items: " \o exc,
                  created_items |-> <<>>]
    /\ caught' = TRUE
    /\ pc' = "cwi_finish"
    /\ UNCHANGED <<method, attrs, session, opened, inflight, reqlog, llmlog, items, idx,
                   created, fetched, exc, outcome, status>>
    /\ UNCHANGED <<earlier, priorityVars, registryVars, wiqlVars, initVars>>

\* lines 201-203
cwi_finish ==
    /\ pc = "cwi_finish"
    /\ Finish
    /\ UNCHANGED <<method, attrs, session, opened, inflight, reqlog, llmlog, items, idx,
                   created, fetched, exc, caught, result>>
    /\ UNCHANGED <<earlier, priorityVars, registryVars, wiqlVars, initVars>>


\* lines 209-223: input_text, then openai_api_key
ewi_validate ==
    /\ pc = "ewi_validate"
    /\ IF Missing("input_text")
       THEN ReturnEarly([status |-> "error",
                         message |-> "Missing required input text",
                         extracted_items |-> <<>>])
       ELSE IF Missing("openai_api_key")
            THEN ReturnEarly([status |-> "error",
                              message |-> "Missing required OpenAI API key",
                              extracted_items |-> <<>>])
            ELSE /\ pc' = "ewi_extract"
                 /\ UNCHANGED <<result, outcome>>
    /\ UNCHANGED <<method, attrs, session, opened, inflight, reqlog, llmlog, items, idx,
                   created, fetched, exc, caught, status>>
    /\ UNCHANGED <<earlier, priorityVars, registryVars, wiqlVars, initVars>>

\* line 226
ewi_extract ==
    /\ pc = "ewi_extract"
    /\ ExtractSend("ewi_extract_wait", "ewi_result")
    /\ UNCHANGED <<method, attrs, session, opened, reqlog, idx, created, fetched, exc,
                   result, outcome, status>>
    /\ UNCHANGED <<earlier, priorityVars, registryVars, wiqlVars, initVars>>

ewi_extract_wait ==
    /\ pc = "ewi_extract_wait"
    /\ ExtractAnswer("ewi_result")
    /\ UNCHANGED <<method, attrs, session, opened, reqlog, idx, created, fetched, exc,
                   result, outcome, status>>
    /\ UNCHANGED <<earlier, priorityVars, registryVars, wiqlVars, initVars>>

\* lines 228-239
ewi_result ==
    /\ pc = "ewi_result"
    /\ IF ~hasattr("work_item_type")
       THEN /\ Raise("AttributeError")
            /\ UNCHANGED result
       ELSE /\ result' = IF items = <<>>
                         THEN [status |-> "warning",
                               message |-> "No " \o attrs["work_item_type"]
                                              \o " items were extracted from the input text",
                               extracted_items |-> <<>>]
                         ELSE [status |-> "success",
                               message |-> "Successfully extracted " \o ToString(Len(items))
                                              \o " " \o attrs["work_item_type"] \o " items",
                               extracted_items |-> items]
            /\ pc' = "ewi_finish"
            /\ UNCHANGED <<session, inflight, exc, outcome>>
    /\ UNCHANGED <<method, attrs, opened, reqlog, llmlog, items, idx, created, fetched,
                   caught, status>>
    /\ UNCHANGED <<earlier, priorityVars, registryVars, wiqlVars, initVars>>

\* lines 241-247: except Exception
ewi_except ==
    /\ pc = "ewi_except"
    /\ result' = [status |-> "error",
                  message |-> "Error extracting work items: " \o exc,
                  extracted_items |-> <<>>]
    /\ caught' = TRUE
    /\ pc' = "ewi_finish"
    /\ UNCHANGED <<method, attrs, session, opened, inflight, reqlog, llmlog, items, idx,
                   created, fetched, exc, outcome, status>>
    /\ UNCHANGED <<earlier, priorityVars, registryVars, wiqlVars, initVars>>

\* lines 250-252
ewi_finish ==
    /\ pc = "ewi_finish"
    /\ Finish
    /\ UNCHANGED <<method, attrs, session, opened, inflight, reqlog, llmlog, items, idx,
                   created, fetched, exc, caught, result>>
    /\ UNCHANGED <<earlier, priorityVars, registryVars, wiqlVars, initVars>>


(***************************************************************************)
(* JiraComponent.build_issues                                              *)
(***************************************************************************)
\* The attributes build_issues reads before it opens the session.
build_issues_reads == {"site_url", "username", "api_token", "jql_query"}

\* JSON bodies of a 200 answer of the search API: the keys present and their values.
JiraKeys == {"startAt", "maxResults", "total", "issues"}
JiraBodies ==
    [keys : {{}, {"total", "issues"}, JiraKeys},
     startAt : {0, 2}, maxResults : {0, 2}, total : {0, 5},
     issues : {<<>>, <<"ISSUE-1">>}]
NoBody == [keys |-> {}, startAt |-> 0, maxResults |-> 0, total |-> 0, issues |-> <<>>]

JiraResponses ==
    {[status |-> r.status, body |-> r.body, ids |-> <<>>, json |-> NoBody] :
        r \in {Raised} \cup NotOk \cup {Ok("invalid_json", <<>>)}}
      \cup {[status |-> HTTP_OK, body |-> "json", ids |-> <<>>, json |-> b] : b \in JiraBodies}

\* api_result.get(k, default)
JsonGet(b, k, default) == IF k \in b.keys THEN b[k] ELSE default

\* lines 133-147: the result of a 200 answer, without the pagination
JiraResult(b) ==
    [total |-> JsonGet(b, "total", 0),
     issues_count |-> Len(JsonGet(b, "issues", <<>>)),
     issues |-> JsonGet(b, "issues", <<>>),
     start_at |-> JsonGet(b, "startAt", 0),
     max_results |-> JsonGet(b, "maxResults", 0)]

\* lines 143-147
JiraPagination(b) ==
    [page |-> (b.startAt \div b.maxResults) + 1,
     total_pages |-> (b.total + b.maxResults - 1) \div b.maxResults,
     has_more |-> (b.startAt + b.maxResults) < b.total]

\* lines 90-111: url, headers and parameters; reading an absent attribute raises
jira_prepare ==
    /\ pc = "jira_prepare"
    /\ IF \E a \in build_issues_reads : ~hasattr(a)
       THEN Raise("AttributeError")
       ELSE /\ pc' = "jira_open"
            /\ UNCHANGED <<session, inflight, exc, outcome>>
    /\ UNCHANGED <<method, attrs, opened, reqlog, llmlog, items, idx, created, fetched,
                   caught, result, status>>
    /\ UNCHANGED <<earlier, priorityVars, registryVars, wiqlVars, initVars>>

\* line 114: async with aiohttp.ClientSession() as session
jira_open ==
    /\ pc = "jira_open"
    /\ session' = "open"
    /\ opened' = opened + 1
    /\ pc' = "jira_post"
    /\ UNCHANGED <<method, attrs, inflight, reqlog, llmlog, items, idx, created, fetched,
                   exc, caught, result, outcome, status>>
    /\ UNCHANGED <<earlier, priorityVars, registryVars, wiqlVars, initVars>>

\* lines 115-119: session.post; with an empty site_url the URL is "/rest/api/3/search",
\* which the HTTP client refuses before it sends anything
jira_post ==
    /\ pc = "jira_post"
    /\ IF attrs["site_url"] = ""
       THEN /\ Raise("InvalidURL")
            /\ UNCHANGED reqlog
       ELSE /\ Send(Request("POST", "search", ""))
            /\ pc' = "jira_post_wait"
            /\ UNCHANGED <<session, exc, outcome>>
    /\ UNCHANGED <<method, attrs, opened, llmlog, items, idx, created, fetched, caught,
                   result, status>>
    /\ UNCHANGED <<earlier, priorityVars, registryVars, wiqlVars, initVars>>

\* lines 119-147: the answer to the search POST
jira_post_wait ==
    /\ pc = "jira_post_wait"
    /\ \E r \in JiraResponses :
         /\ Answer(r)
         /\ CASE r.status = 0 ->
                   /\ Raise("ClientConnectionError")
                   /\ UNCHANGED result
              [] r.status # 0 /\ r.status # HTTP_OK ->
                   /\ result' = [status |-> "error",
                                 message |-> "API request failed with status "
                                                \o ToString(r.status),
                                 details |-> r.body]
                   /\ inflight' = 0
                   /\ pc' = "jira_close"
                   /\ UNCHANGED <<session, exc, outcome>>
              [] r.status = HTTP_OK /\ r.body = "invalid_json" ->
                   /\ Raise("JSONDecodeError")
                   /\ UNCHANGED result
              [] r.status = HTTP_OK /\ r.body = "json" ->
                   IF {"startAt", "maxResults", "total"} \subseteq r.json.keys
                   THEN IF r.json.maxResults = 0
                        THEN /\ Raise("ZeroDivisionError")
                             /\ UNCHANGED result
                        ELSE /\ result' = [pagination |-> JiraPagination(r.json)]
                                             @@ JiraResult(r.json)
                             /\ inflight' = 0
                             /\ pc' = "jira_close"
                             /\ UNCHANGED <<session, exc, outcome>>
                   ELSE /\ result' = JiraResult(r.json)
                        /\ inflight' = 0
                        /\ pc' = "jira_close"
                        /\ UNCHANGED <<session, exc, outcome>>
    /\ UNCHANGED <<method, attrs, opened, llmlog, items, idx, created, fetched, caught,
                   status>>
    /\ UNCHANGED <<earlier, priorityVars, registryVars, wiqlVars, initVars>>

\* the end of the `async with` block of line 114
jira_close ==
    /\ pc = "jira_close"
    /\ session' = SessionAfterExit(session, FALSE)
    /\ pc' = "jira_finish"
    /\ UNCHANGED <<method, attrs, opened, inflight, reqlog, llmlog, items, idx, created,
                   fetched, exc, caught, result, outcome, status>>
    /\ UNCHANGED <<earlier, priorityVars, registryVars, wiqlVars, initVars>>

\* lines 149-155: except Exception
jira_except ==
    /\ pc = "jira_except"
    /\ result' = [status |-> "error",
                  message |-> "Error fetching Jira issues: " \o exc,
                  exception_type |-> exc]
    /\ caught' = TRUE
    /\ pc' = "jira_finish"
    /\ UNCHANGED <<method, attrs, session, opened, inflight, reqlog, llmlog, items, idx,
                   created, fetched, exc, outcome, status>>
    /\ UNCHANGED <<earlier, priorityVars, registryVars, wiqlVars, initVars>>

\* lines 158-160
jira_finish ==
    /\ pc = "jira_finish"
    /\ Finish
    /\ UNCHANGED <<method, attrs, session, opened, inflight, reqlog, llmlog, items, idx,
                   created, fetched, exc, caught, result>>
    /\ UNCHANGED <<earlier, priorityVars, registryVars, wiqlVars, initVars>>


(***************************************************************************)
(* Specification of the component calls.                                   *)
(***************************************************************************)
InitPriorityIdle ==
    /\ priority_string = <<>>
    /\ priority_value = [ran |-> FALSE, raised |-> FALSE, value |-> 0]

InitRegistryIdle ==
    /\ phase = "unused"
    /\ collections = <<>>
    /\ CUSTOM_COMPONENT_REGISTRY = <<>>
    /\ COMPONENTS_REGISTRY = <<>>
    /\ returned = <<>>
    /\ prior = <<>>
    /\ loaded = <<>>
    /\ registered = <<>>

InitWiqlIdle ==
    /\ wiql_in = <<>>
    /\ wiql_out = <<>>

InitConstructIdle ==
    /\ constructing = "none"
    /\ init_pc = "idle"
    /\ preset = <<>>
    /\ self_attrs = <<>>
    /\ init_raised = FALSE

Init == InitCall /\ InitPriorityIdle /\ InitRegistryIdle /\ InitWiqlIdle /\ InitConstructIdle

Next ==
    \/ Call
    \/ bwi_validate \/ bwi_query \/ bwi_prepare \/ bwi_open \/ bwi_post
    \/ bwi_post_wait \/ bwi_get \/ bwi_get_wait \/ bwi_result \/ bwi_close
    \/ bwi_except \/ bwi_finish
    \/ bwq_build
    \/ cwi_validate \/ cwi_extract \/ cwi_extract_wait \/ cwi_check \/ cwi_open
    \/ cwi_item \/ cwi_post_wait \/ cwi_close \/ cwi_result \/ cwi_except \/ cwi_finish
    \/ ewi_validate \/ ewi_extract \/ ewi_extract_wait \/ ewi_result \/ ewi_except
    \/ ewi_finish
    \/ jira_prepare \/ jira_open \/ jira_post \/ jira_post_wait \/ jira_close
    \/ jira_except \/ jira_finish

Spec == Init /\ [][Next]_vars

\* The answers a call has received: of the requests it sent, and of the LLM
\* with the items it extracted.
Responses ==
    [http |-> [i \in DOMAIN reqlog |-> reqlog[i].response], llm |-> llmlog,
     extracted |-> items]

\* the lists a call collects, were they kept on the instance between calls
CollectedKept ==
    /\ UNCHANGED created
    /\ UNCHANGED fetched

\* `created_items = []`, `work_items = []`: the lists a call collects are
\* locals of the call
Collected ==
    /\ created' = <<>>
    /\ fetched' = <<>>

\* The same output method is called again on the instance, with the same input
\* attributes: the locals of the method are new, the instance keeps the status
\* the call before assigned.
call_again ==
    /\ pc = "done"
    /\ outcome = "returned"
    /\ earlier = NoEarlier
    /\ earlier' = [called |-> TRUE, responses |-> Responses, result |-> result]
    /\ pc' = Start(method)
    /\ session' = "none"
    /\ opened' = 0
    /\ inflight' = 0
    /\ reqlog' = <<>>
    /\ llmlog' = <<>>
    /\ items' = <<>>
    /\ idx' = 0
    /\ Collected
    /\ exc' = ""
    /\ caught' = FALSE
    /\ result' = NoResult
    /\ outcome' = "running"
    /\ UNCHANGED <<method, attrs, status>>
    /\ UNCHANGED <<priorityVars, registryVars, wiqlVars, initVars>>

NextCalls ==
    \/ Next
    \/ call_again

SpecCalls == Init /\ [][NextCalls]_vars

(***************************************************************************)
(* Properties of the component calls (checked under Spec).                 *)
(***************************************************************************)
\* The attribute is absent or the empty string.
AbsentOrEmpty(a) == attrs[a] \in {Absent, ""}

\* C1: every output method of the three components returns a result object and
\* never raises to its caller, whatever the external calls do (connection
\* exception, non-200 status, invalid JSON, missing keys).
C1_NeverRaises ==
    /\ outcome # "raised"
    /\ pc = "done" => (outcome = "returned" /\ result # NoResult)

C1_Witness ==
    /\ method = "build_issues"
    /\ outcome = "returned"
    /\ caught
    /\ exc = "JSONDecodeError"
    /\ result.status = "error"

\* C2: build_work_items with organization, project or pat_token absent or empty
\* returns exactly {status: "error", message: "Missing required parameter: <name>",
\* work_items: []} for the first missing name in that order, and opens no session
\* and sends no request.
C2_FirstMissing ==
    IF AbsentOrEmpty("organization") THEN "organization"
    ELSE IF AbsentOrEmpty("project") THEN "project"
    ELSE IF AbsentOrEmpty("pat_token") THEN "pat_token"
    ELSE ""

C2_MissingParameterPayload ==
    (method = "build_work_items" /\ C2_FirstMissing # "") =>
        /\ pc \in {"bwi_validate", "done"}
        /\ opened = 0 /\ session = "none" /\ reqlog = <<>> /\ llmlog = <<>>
        /\ pc = "done" =>
              /\ outcome = "returned"
              /\ result = [status |-> "error",
                           message |-> "Missing required parameter: " \o C2_FirstMissing,
                           work_items |-> <<>>]

C2_Witness ==
    /\ method = "build_work_items"
    /\ pc = "done"
    /\ attrs["organization"] = "x"
    /\ attrs["project"] = ""
    /\ attrs["pat_token"] = Absent
    /\ result.message = "Missing required parameter: project"

\* C3: create_work_items with any of organization, project, pat_token, input_text,
\* openai_api_key absent or empty returns status "error", message "Missing required
\* parameter: <name>" (first missing in that order) and created_items = [];
\* extract_work_items with input_text or openai_api_key absent or empty returns
\* status "error" with extracted_items = [] (input_text checked first); in both
\* cases no LLM call and no Azure DevOps request is made.
C3_FirstMissing ==
    IF AbsentOrEmpty("organization") THEN "organization"
    ELSE IF AbsentOrEmpty("project") THEN "project"
    ELSE IF AbsentOrEmpty("pat_token") THEN "pat_token"
    ELSE IF AbsentOrEmpty("input_text") THEN "input_text"
    ELSE IF AbsentOrEmpty("openai_api_key") THEN "openai_api_key"
    ELSE ""

C3_WriterValidation ==
    /\ (method = "create_work_items" /\ C3_FirstMissing # "") =>
          /\ pc \in {"cwi_validate", "done"}
          /\ llmlog = <<>> /\ reqlog = <<>> /\ opened = 0
          /\ pc = "done" =>
                /\ outcome = "returned"
                /\ result.status = "error"
                /\ result.message = "Missing required parameter: " \o C3_FirstMissing
                /\ result.created_items = <<>>
    /\ (method = "extract_work_items"
          /\ (AbsentOrEmpty("input_text") \/ AbsentOrEmpty("openai_api_key"))) =>
          /\ pc \in {"ewi_validate", "done"}
          /\ llmlog = <<>> /\ reqlog = <<>> /\ opened = 0
          /\ pc = "done" =>
                /\ outcome = "returned"
                /\ result.status = "error"
                /\ result.extracted_items = <<>>
                /\ AbsentOrEmpty("input_text") =>
                      result.message = "Missing required input text"

C3_Witness ==
    /\ method = "create_work_items"
    /\ pc = "done"
    /\ attrs["organization"] = "x" /\ attrs["project"] = "x" /\ attrs["pat_token"] = "x"
    /\ attrs["input_text"] = ""
    /\ attrs["openai_api_key"] = Absent
    /\ result.message = "Missing required parameter: input_text"

\* C4: build_issues validates site_url, username, api_token and jql_query before
\* any I/O: when one of them is absent or empty it returns an error-status result
\* without opening a session or sending a request.
C4_JiraValidatesBeforeIO ==
    (method = "build_issues" /\ \E a \in {"site_url", "username", "api_token", "jql_query"} :
                                    AbsentOrEmpty(a)) =>
        /\ opened = 0
        /\ reqlog = <<>>
        /\ pc = "done" => ("status" \in DOMAIN result /\ result.status = "error")

\* C5: build_work_items returns status "error" whenever a request of the call
\* failed (non-200 answer or exception, WIQL POST or detail GET), and status
\* "success" only when every request of the call was answered 200.
C5_FailedRequestGivesError ==
    (method = "build_work_items" /\ outcome = "returned"
        /\ \E i \in DOMAIN reqlog : reqlog[i].response.status # HTTP_OK) =>
        result.status = "error"

RECURSIVE C8_IdList(_, _)
C8_IdList(s, n) ==
    IF n = 0 THEN ""
    ELSE IF n = 1 THEN ToString(s[1])
    ELSE C8_IdList(s, n - 1) \o "," \o ToString(s[n])

\* C8: build_work_items sends at most two requests: first one WIQL POST, then a
\* detail GET only if the POST was answered 200 with at least one id, and then
\* exactly one GET that carries all the ids in order; a 200 answer without ids
\* gives status "success", "No work items found", work_items = [] and no GET.
C8_AtMostOnePostOneGet ==
    method = "build_work_items" =>
        /\ Len(reqlog) <= 2
        /\ Len(reqlog) >= 1 => (reqlog[1].verb = "POST" /\ reqlog[1].target = "wiql")
        /\ Len(reqlog) = 2 =>
              /\ reqlog[2].verb = "GET" /\ reqlog[2].target = "workitems"
              /\ reqlog[1].response.status = HTTP_OK
              /\ reqlog[1].response.ids # <<>>
              /\ reqlog[2].ids = C8_IdList(reqlog[1].response.ids,
                                           Len(reqlog[1].response.ids))
        /\ (outcome = "returned" /\ Len(reqlog) >= 1
              /\ reqlog[1].response.status = HTTP_OK
              /\ reqlog[1].response.body \in {"workItems", "no_workItems_key"}) =>
              IF reqlog[1].response.ids = <<>>
              THEN /\ Len(reqlog) = 1
                   /\ result = [status |-> "success",
                                message |-> "No work items found",
                                work_items |-> <<>>]
              ELSE Len(reqlog) = 2

C8_Witness ==
    /\ method = "build_work_items"
    /\ outcome = "returned"
    /\ Len(reqlog) = 2
    /\ reqlog[2].ids = "12,7"
    /\ result.status = "success"
    /\ Len(result.work_items) = 2

(***************************************************************************)
(* AzureDevOpsWriterComponent._parse_priority.  A string is a sequence of  *)
(* characters; "sup2" stands for the one character U+00B2 (superscript     *)
(* two), which str.isdigit() accepts and int() rejects.                    *)
(***************************************************************************)
\* The words priority strings are made of.
PriorityTokens ==
    {<<"c", "r", "i", "t", "i", "c", "a", "l">>, <<"H", "i", "g", "h", "e", "s", "t">>,
     <<"h", "i", "g", "h">>, <<"H", "I", "G", "H">>, <<"m", "e", "d", "i", "u", "m">>,
     <<"N", "o", "r", "m", "a", "l">>, <<"l", "o", "w">>, <<"L", "o", "w", "e", "s", "t">>,
     <<"u", "r", "g", "e", "n", "t">>, <<" ">>,
     <<"0">>, <<"1">>, <<"2">>, <<"3">>, <<"4">>, <<"5">>, <<"sup2">>}

RECURSIVE Concat(_)
Concat(ws) == IF ws = <<>> THEN <<>> ELSE Head(ws) \o Concat(Tail(ws))

PriorityStrings ==
    {Concat(ws) : ws \in UNION {[1..n -> PriorityTokens] : n \in 0..MaxTokens}}

InitPriority ==
    /\ priority_string \in PriorityStrings
    /\ priority_value = NotRun

\* _parse_priority(priority_string) is called
call_parse_priority ==
    /\ ~priority_value.ran
    /\ priority_value' = parse_priority(priority_string)
    /\ UNCHANGED <<priority_string, callVars, registryVars, wiqlVars, initVars>>

InitPrioritySpec == InitCall /\ InitPriority /\ InitRegistryIdle /\ InitWiqlIdle /\ InitConstructIdle

NextPriority == call_parse_priority

SpecPriority == InitPrioritySpec /\ [][NextPriority]_vars

\* The claimed value of a priority string: a string of decimal digits denoting
\* n in 1..4 gives n; otherwise the keywords, in the claimed order; otherwise 3.
C6_AllDecimal(s) == s # <<>> /\ \A i \in DOMAIN s : IsDecimalChar(s[i])
C6_Claimed(string) ==
    LET s == lower(string) IN
    IF C6_AllDecimal(s) /\ int(s) \in 1..4 THEN int(s)
    ELSE IF Contains(s, <<"c", "r", "i", "t", "i", "c", "a", "l">>)
              \/ Contains(s, <<"h", "i", "g", "h", "e", "s", "t">>) THEN 1
    ELSE IF Contains(s, <<"h", "i", "g", "h">>) THEN 2
    ELSE IF Contains(s, <<"m", "e", "d", "i", "u", "m">>)
              \/ Contains(s, <<"n", "o", "r", "m", "a", "l">>) THEN 3
    ELSE IF Contains(s, <<"l", "o", "w">>) THEN 4
    ELSE 3

\* C6: _parse_priority returns for every input string an integer in 1..4: the
\* number of a digit string denoting 1..4, else 1 for "critical"/"highest", else 2
\* for "high", else 3 for "medium"/"normal", else 4 for "low", and 3 for every
\* other string.
C6_ParsePriorityTotal ==
    priority_value.ran =>
        /\ ~priority_value.raised
        /\ priority_value.value \in 1..4
        /\ priority_value.value = C6_Claimed(priority_string)

(***************************************************************************)
(* The registry of components/__init__.py.  A name is a string, modelled   *)
(* as the sequence of its code points, so that sorted() orders names as    *)
(* Python does; a dict is the sequence of its (key, value) items in        *)
(* insertion order.                                                        *)
(***************************************************************************)
Name_a == <<97>>
Name_B == <<66>>
Name_Ab == <<65, 98>>
Name_Z == <<90>>
Name_BooleanOutputParser ==
    <<66, 111, 111, 108, 101, 97, 110, 79, 117, 116, 112, 117,
      116, 80, 97, 114, 115, 101, 114>>

\* The objects the component collections may hold: two components that share
\* the name "a", one named "B", one without build_config, and one whose name
\* attribute raises when read.
Components ==
    {[id |-> "a1", name |-> Name_a, build_config |-> TRUE, name_raises |-> FALSE],
     [id |-> "a2", name |-> Name_a, build_config |-> TRUE, name_raises |-> FALSE],
     [id |-> "B1", name |-> Name_B, build_config |-> TRUE, name_raises |-> FALSE],
     [id |-> "Ab1", name |-> Name_Ab, build_config |-> FALSE, name_raises |-> FALSE],
     [id |-> "bad", name |-> <<>>, build_config |-> TRUE, name_raises |-> TRUE]}

\* An entry of the collection list: a list of components, or (iterable = FALSE)
\* a single component spliced in by *get_task_components() or
\* *context_builder_components, which the inner for loop cannot iterate.
CollectionEntries ==
    {[iterable |-> TRUE, members |-> m] :
        m \in UNION {[1..n -> Components] : n \in 0..MaxCollLen}}
      \cup {[iterable |-> FALSE, members |-> <<>>]}
CollectionLists == UNION {[1..n -> CollectionEntries] : n \in 0..MaxCollections}

\* Classes a custom component file may define.
Classes ==
    {[name |-> Name_Z, doc |-> "doc of Z"], [name |-> Name_a, doc |-> "doc of a"]}

\* a < b for strings, by code points
RECURSIVE LexLess(_, _)
LexLess(a, b) ==
    IF b = <<>> THEN FALSE
    ELSE IF a = <<>> THEN TRUE
    ELSE IF Head(a) # Head(b) THEN Head(a) < Head(b)
    ELSE LexLess(Tail(a), Tail(b))

DictKeys(d) == {d[i].key : i \in DOMAIN d}
DictGet(d, k) == d[CHOOSE i \in DOMAIN d : d[i].key = k].value

\* d[k] = v: an existing key keeps its place
DictSet(d, k, v) ==
    IF k \in DictKeys(d)
    THEN [i \in DOMAIN d |-> IF d[i].key = k THEN [key |-> k, value |-> v] ELSE d[i]]
    ELSE Append(d, [key |-> k, value |-> v])

\* dict(sorted(d.items())): the items in ascending order of their keys
SortedNot(d) == d
RECURSIVE Sorted(_)
Sorted(d) ==
    IF d = <<>> THEN <<>>
    ELSE LET m == CHOOSE i \in DOMAIN d : \A j \in DOMAIN d : ~LexLess(d[j].key, d[i].key)
         IN <<d[m]>> \o Sorted([i \in 1..(Len(d) - 1) |-> IF i < m THEN d[i] ELSE d[i + 1]])

ComponentValue(c) == [kind |-> "component", id |-> c.id]

\* lines 159-161: the inner loop over one collection; [d, ok]
RECURSIVE LoadMembers(_, _)
LoadMembers(d, members) ==
    IF members = <<>> THEN [d |-> d, ok |-> TRUE]
    ELSE LET c == Head(members) IN
         IF ~c.build_config THEN LoadMembers(d, Tail(members))
         ELSE IF c.name_raises THEN [d |-> d, ok |-> FALSE]
         ELSE LoadMembers(DictSet(d, c.name, ComponentValue(c)), Tail(members))

\* lines 133-161: the loop over the collection list; [d, ok]
RECURSIVE LoadCollections(_, _)
LoadCollections(d, cols) ==
    IF cols = <<>> THEN [d |-> d, ok |-> TRUE]
    ELSE IF ~Head(cols).iterable THEN [d |-> d, ok |-> FALSE]
    ELSE LET r == LoadMembers(d, Head(cols).members) IN
         IF r.ok THEN LoadCollections(r.d, Tail(cols)) ELSE r

\* lines 125-171: load_components_registry(); custom is CUSTOM_COMPONENT_REGISTRY
\* after the call and value the mapping returned
load_components_registry(d, cols) ==
    LET r == LoadCollections(d, cols) IN
    [custom |-> r.d,
     error |-> ~r.ok,
     value |-> IF r.ok THEN Sorted(r.d) ELSE <<>>]

NotCalled == [called |-> FALSE, error |-> FALSE, value |-> <<>>]

InitRegistry ==
    /\ phase = "import"
    /\ collections \in CollectionLists
    /\ CUSTOM_COMPONENT_REGISTRY = <<>>
    /\ COMPONENTS_REGISTRY = <<>>
    /\ returned = NotCalled
    /\ prior = <<>>
    /\ loaded = <<>>
    /\ registered = <<>>

\* lines 352-369: the end of the module's initialisation
module_init ==
    /\ phase = "import"
    /\ LET r == load_components_registry(CUSTOM_COMPONENT_REGISTRY, collections) IN
         /\ CUSTOM_COMPONENT_REGISTRY' = r.custom
         /\ returned' = [called |-> TRUE, error |-> r.error, value |-> r.value]
         /\ COMPONENTS_REGISTRY' =
               DictSet(r.value, Name_BooleanOutputParser,
                       [kind |-> "instance", id |-> "BooleanOutputParser"])
    /\ prior' = CUSTOM_COMPONENT_REGISTRY
    /\ phase' = "ready"
    /\ UNCHANGED <<collections, loaded, registered, callVars, priorityVars, wiqlVars, initVars>>

\* a later call of load_components_registry()
call_load_components_registry ==
    /\ phase = "ready"
    /\ LET r == load_components_registry(CUSTOM_COMPONENT_REGISTRY, collections) IN
         /\ CUSTOM_COMPONENT_REGISTRY' = r.custom
         /\ returned' = [called |-> TRUE, error |-> r.error, value |-> r.value]
    /\ prior' = CUSTOM_COMPONENT_REGISTRY
    /\ UNCHANGED <<phase, collections, COMPONENTS_REGISTRY, loaded, registered, callVars,
                   priorityVars, wiqlVars, initVars>>

\* An object without __name__ (an instance passed by mistake).
NotAClass == [doc |-> ""]

\* line 109, were the test `component_name not in CUSTOM_COMPONENT_REGISTRY`
\* left out: the last registration wins
AlwaysRegisters(d, name) == TRUE

\* line 109: `not CUSTOM_COMPONENT_REGISTRY.get(component_name)`; every value
\* the registry holds (a component, a descriptor) is true
NotRegistered(d, name) == name \notin DictKeys(d)

\* lines 97-122: register_with_load_method(component); component.__name__ of
\* an object without it raises AttributeError, which line 120 catches
register_with_load_method(d, cls) ==
    IF "name" \notin DOMAIN cls THEN d
    ELSE IF NotRegistered(d, cls.name)
    THEN DictSet(d, cls.name,
                 [kind |-> "descriptor", name |-> cls.name, description |-> cls.doc,
                  component |-> cls])
    ELSE d

\* the same call, were COMPONENTS_REGISTRY the dict it writes to
call_register_with_load_method_shared ==
    /\ phase = "ready"
    /\ \E cls \in Classes \cup {NotAClass} :
         /\ CUSTOM_COMPONENT_REGISTRY' = register_with_load_method(CUSTOM_COMPONENT_REGISTRY, cls)
         /\ COMPONENTS_REGISTRY' = register_with_load_method(COMPONENTS_REGISTRY, cls)
         /\ registered' = [component |-> cls, raised |-> FALSE,
                           before |-> CUSTOM_COMPONENT_REGISTRY,
                           after |-> register_with_load_method(CUSTOM_COMPONENT_REGISTRY, cls)]
    /\ UNCHANGED <<phase, collections, returned, prior, loaded, callVars, priorityVars, wiqlVars, initVars>>

call_register_with_load_method ==
    /\ phase = "ready"
    /\ \E cls \in Classes \cup {NotAClass} :
         /\ CUSTOM_COMPONENT_REGISTRY' = register_with_load_method(CUSTOM_COMPONENT_REGISTRY, cls)
         /\ registered' = [component |-> cls, raised |-> FALSE,
                           before |-> CUSTOM_COMPONENT_REGISTRY,
                           after |-> register_with_load_method(CUSTOM_COMPONENT_REGISTRY, cls)]
    /\ UNCHANGED <<phase, collections, COMPONENTS_REGISTRY, returned, prior, loaded,
                   callVars, priorityVars, wiqlVars, initVars>>

InitRegistrySpec == InitCall /\ InitPriorityIdle /\ InitRegistry /\ InitWiqlIdle /\ InitConstructIdle

NextRegistry ==
    \/ module_init
    \/ call_load_components_registry
    \/ call_register_with_load_method

SpecRegistry == InitRegistrySpec /\ [][NextRegistry]_vars

(***************************************************************************)
(* Properties of the registry (checked under SpecRegistry).                *)
(***************************************************************************)
\* The entry is a collection that the loader can process to its end.
WellFormed(e) == e.iterable /\ \A i \in DOMAIN e.members : ~e.members[i].name_raises

\* C9: when processing one entry of the collection list fails, the components
\* of all other, well-formed collections are still present in the returned
\* registry.
C9_ErrorIsolation ==
    returned.called =>
        \A i \in DOMAIN collections :
            WellFormed(collections[i]) =>
                \A j \in DOMAIN collections[i].members :
                    LET c == collections[i].members[j] IN
                    c.build_config => c.name \in DictKeys(returned.value)

\* The components of the collection list, in collection order.
RECURSIVE AllMembers(_)
AllMembers(cols) ==
    IF cols = <<>> THEN <<>> ELSE Head(cols).members \o AllMembers(Tail(cols))

\* The names of the components that have build_config.
BuildConfigNames ==
    {AllMembers(collections)[i].name :
        i \in {j \in DOMAIN AllMembers(collections) : AllMembers(collections)[j].build_config}}

\* The last component of that name that has build_config.
LastNamed(n) ==
    LET all == AllMembers(collections)
        at == {i \in DOMAIN all : all[i].build_config /\ all[i].name = n}
    IN all[CHOOSE i \in at : \A j \in at : j <= i]

\* The keys of the mapping are strictly ascending (so no key occurs twice).
Ascending(d) == \A i \in 1..(Len(d) - 1) : LexLess(d[i].key, d[i + 1].key)

\* C10 as claimed: without error the returned mapping has exactly one entry per
\* distinct name among the components with build_config, keyed by the name, the
\* later component of a name being the one stored, and its keys ascend.
C10_ExactlyTheBuildConfigComponents ==
    (returned.called /\ ~returned.error) =>
        /\ DictKeys(returned.value) = BuildConfigNames
        /\ \A n \in BuildConfigNames :
              DictGet(returned.value, n) = [kind |-> "component", id |-> LastNamed(n).id]
        /\ Ascending(returned.value)

\* C10 amended: the returned mapping holds one entry per distinct name among the
\* components with build_config (the later component of a name stored), and
\* besides them every entry CUSTOM_COMPONENT_REGISTRY held before the call under
\* another name; its keys ascend.
C10_BuildConfigComponentsOverPrior ==
    (returned.called /\ ~returned.error) =>
        /\ DictKeys(returned.value) = BuildConfigNames \cup DictKeys(prior)
        /\ \A n \in BuildConfigNames :
              DictGet(returned.value, n) = [kind |-> "component", id |-> LastNamed(n).id]
        /\ \A n \in DictKeys(prior) \ BuildConfigNames :
              DictGet(returned.value, n) = DictGet(prior, n)
        /\ Ascending(returned.value)
        /\ prior = <<>> => DictKeys(returned.value) = BuildConfigNames

C10_Witness ==
    /\ returned.called /\ ~returned.error
    /\ Len(collections) = 2
    /\ collections[1].members # <<>> /\ collections[2].members # <<>>
    /\ collections[1].members[1].id = "a1"
    /\ collections[2].members[1].id = "a2"
    /\ Name_Z \in DictKeys(prior)
    /\ Len(returned.value) = 2
    /\ DictGet(returned.value, Name_a).id = "a2"

(***************************************************************************)
(* load_component_from_file of components/__init__.py, and the registry    *)
(* after the module's initialisation (specification SpecLoader).           *)
(***************************************************************************)
Name_Component == <<67, 111, 109, 112, 111, 110, 101, 110, 116>>

\* What dir(module) of a custom component file may list, in the order dir()
\* gives (ascending names): the class Component itself (imported by the file),
\* a class N that is no component, the component classes Z and a, a value v.
ModuleAttrs ==
    <<[attr_name |-> Name_Component, is_type |-> TRUE, is_subclass |-> TRUE,
       is_Component |-> TRUE,
       cls |-> [name |-> Name_Component, doc |-> "doc of Component"]],
      [attr_name |-> <<78>>, is_type |-> TRUE, is_subclass |-> FALSE,
       is_Component |-> FALSE, cls |-> [name |-> <<78>>, doc |-> "doc of N"]],
      [attr_name |-> Name_Z, is_type |-> TRUE, is_subclass |-> TRUE,
       is_Component |-> FALSE, cls |-> [name |-> Name_Z, doc |-> "doc of Z"]],
      [attr_name |-> Name_a, is_type |-> TRUE, is_subclass |-> TRUE,
       is_Component |-> FALSE, cls |-> [name |-> Name_a, doc |-> "doc of a"]],
      [attr_name |-> <<118>>, is_type |-> FALSE, is_subclass |-> FALSE,
       is_Component |-> FALSE, cls |-> [name |-> <<118>>, doc |-> ""]]>>

\* The outcomes of spec.loader.exec_module(module): the module runs to its end,
\* raises an exception that derives from Exception, or raises one that derives
\* from BaseException only (SystemExit of sys.exit(), KeyboardInterrupt).
ExecOutcomes == {"ok", "Exception", "SystemExit"}

\* A file path and what is found there; dir is the set of ModuleAttrs (by
\* index) the module defines.
Files ==
    {[exists |-> FALSE, has_spec |-> FALSE, exec |-> "ok", dir |-> {}],
     [exists |-> TRUE, has_spec |-> FALSE, exec |-> "ok", dir |-> {}]}
      \cup {[exists |-> TRUE, has_spec |-> TRUE, exec |-> e, dir |-> {}] :
               e \in ExecOutcomes \ {"ok"}}
      \cup {[exists |-> TRUE, has_spec |-> TRUE, exec |-> "ok", dir |-> S] :
               S \in SUBSET DOMAIN ModuleAttrs}

\* lines 334-338: the test a module attribute passes to be registered
IsStrictSubclass(attr) == attr.is_type /\ attr.is_subclass /\ ~attr.is_Component

\* lines 331-343: the loop over dir(module) from its k-th name on; passed is the
\* sequence of classes given to register_with_load_method so far
RECURSIVE RegisterFound(_, _, _, _)
RegisterFound(d, passed, dir, k) ==
    IF k > Len(ModuleAttrs) THEN [custom |-> d, raised |-> FALSE, passed |-> passed]
    ELSE IF k \in dir /\ IsStrictSubclass(ModuleAttrs[k])
         THEN RegisterFound(register_with_load_method(d, ModuleAttrs[k].cls),
                            Append(passed, ModuleAttrs[k].cls.name), dir, k + 1)
         ELSE RegisterFound(d, passed, dir, k + 1)

\* lines 306-349: load_component_from_file(file_path, update_component_registry);
\* custom is CUSTOM_COMPONENT_REGISTRY after the call, raised whether the call
\* raised.  The body never reads update_component_registry.
load_component_from_file(d, f, update_component_registry) ==
    IF ~f.exists THEN [custom |-> d, raised |-> FALSE, passed |-> <<>>]
    ELSE IF ~f.has_spec THEN [custom |-> d, raised |-> FALSE, passed |-> <<>>]
    ELSE IF f.exec = "Exception" THEN [custom |-> d, raised |-> FALSE, passed |-> <<>>]
    ELSE IF f.exec = "SystemExit" THEN [custom |-> d, raised |-> TRUE, passed |-> <<>>]
    ELSE RegisterFound(d, <<>>, f.dir, 1)

call_load_component_from_file ==
    /\ phase = "ready"
    /\ \E f \in Files : \E update_component_registry \in BOOLEAN :
         LET r == load_component_from_file(CUSTOM_COMPONENT_REGISTRY, f,
                                           update_component_registry)
         IN
         /\ CUSTOM_COMPONENT_REGISTRY' = r.custom
         /\ loaded' = [file |-> f, raised |-> r.raised, passed |-> r.passed,
                       before |-> CUSTOM_COMPONENT_REGISTRY, after |-> r.custom,
                       update_component_registry |-> update_component_registry]
    /\ UNCHANGED <<phase, collections, COMPONENTS_REGISTRY, returned, prior, registered,
                   callVars, priorityVars, wiqlVars, initVars>>

\* The collection lists the loader's specification starts from.
LoaderCollections == {c \in CollectionLists : Len(c) <= 1}

InitLoaderSpec ==
    /\ InitCall
    /\ InitPriorityIdle
    /\ phase = "import"
    /\ collections \in LoaderCollections
    /\ CUSTOM_COMPONENT_REGISTRY = <<>>
    /\ COMPONENTS_REGISTRY = <<>>
    /\ returned = NotCalled
    /\ prior = <<>>
    /\ loaded = <<>>
    /\ registered = <<>>
    /\ InitWiqlIdle
    /\ InitConstructIdle

NextLoader ==
    \/ module_init
    \/ call_register_with_load_method
    \/ call_load_component_from_file

SpecLoader == InitLoaderSpec /\ [][NextLoader]_vars

(***************************************************************************)
(* Properties of the loader and of COMPONENTS_REGISTRY (under SpecLoader). *)
(***************************************************************************)
\* C11: once the module's initialisation has finished, no call of
\* register_with_load_method or load_component_from_file changes
\* COMPONENTS_REGISTRY.
C11_RegistryReadOnlyAfterInit ==
    [][phase = "ready" => COMPONENTS_REGISTRY' = COMPONENTS_REGISTRY]_vars

\* A file has been loaded whose class Z went into CUSTOM_COMPONENT_REGISTRY,
\* and COMPONENTS_REGISTRY, built from a component, does not hold it.
C11_Witness ==
    /\ phase = "ready"
    /\ loaded # <<>>
    /\ loaded.passed # <<>>
    /\ Name_Z \in DictKeys(CUSTOM_COMPONENT_REGISTRY)
    /\ Name_Z \notin DictKeys(COMPONENTS_REGISTRY)
    /\ Len(COMPONENTS_REGISTRY) = 2

\* C12: load_component_from_file never raises; a path that does not exist or a
\* load that fails leaves CUSTOM_COMPONENT_REGISTRY as it was; when the load
\* succeeds exactly the strict subclasses of Component of the module are passed
\* to register_with_load_method, Component itself never.
C12_LoaderBestEffort ==
    loaded # <<>> =>
        /\ ~loaded.raised
        /\ LET f == loaded.file IN
           IF f.exists /\ f.has_spec /\ f.exec = "ok"
           THEN /\ {loaded.passed[i] : i \in DOMAIN loaded.passed}
                      = {ModuleAttrs[k].cls.name :
                            k \in {j \in f.dir : IsStrictSubclass(ModuleAttrs[j])}}
                /\ Name_Component \notin DictKeys(loaded.after)
           ELSE loaded.passed = <<>> /\ loaded.after = loaded.before

(***************************************************************************)
(* The inputs of the WIQL builders (specification SpecWiql).               *)
(***************************************************************************)
\* ---- the inputs
\* getattr(self, 'project', '') or ''
Projects == {<<>>, <<"Proj">>, <<"O", Quote, "Neil">>}

ParamKeys ==
    <<"fields", "maxItems", "workItemTypes", "states", "assignedTo", "areaPath",
      "iterationPath", "tags", "searchTerms", "orderBy">>

ParamValues(key) ==
    CASE key = "fields" ->
           {PyList(<<>>), PyList(<<PyStr(<<"System.Id">>)>>),
            PyList(<<PyStr(<<"System.Id">>), PyStr(<<"Custom.Rank">>)>>)}
      [] key = "maxItems" ->
           {PyInt(0), PyInt(2), PyInt(-1), PyStr(<<"5">>), PyBool(TRUE)}
      [] key = "workItemTypes" ->
           {PyStr(<<>>), PyStr(<<"Bug">>), PyList(<<PyStr(<<"Bug">>)>>),
            PyList(<<PyStr(<<"Bug">>), PyStr(<<"Task">>)>>),
            PyTuple(<<PyStr(<<"Bug">>)>>)}
      [] key = "states" ->
           {PyStr(<<"New">>), PyList(<<PyStr(<<"New">>)>>),
            PyList(<<PyStr(<<"New">>), PyStr(<<"Won", Quote, "t Fix">>)>>)}
      [] key = "assignedTo" ->
           {PyStr(<<>>), PyStr(<<"ann@example.com">>), PyStr(<<"O", Quote, "Brien">>)}
      [] key = "areaPath" ->
           {PyStr(<<"Area/Sub">>), PyStr(<<"Area/", Star>>), PyInt(5)}
      [] key = "iterationPath" ->
           {PyStr(<<"@CurrentIteration">>), PyStr(<<"Iter/", Star>>),
            PyStr(<<"Iter/1">>)}
      [] key = "tags" ->
           {PyStr(<<"ui">>), PyList(<<PyStr(<<"ui">>)>>),
            PyList(<<PyStr(<<"ui">>), PyStr(<<"api">>)>>), PyList(<<>>)}
      [] key = "searchTerms" ->
           {PyStr(<<"login">>), PyList(<<PyStr(<<"login">>)>>),
            PyList(<<PyStr(<<"login">>), PyStr(<<"crash">>)>>)}
      [] key = "orderBy" ->
           {PyDict({"field"}, <<"System.Id">>, FALSE),
            PyDict({"field", "descending"}, <<"System.Id">>, TRUE),
            PyDict({"descending"}, <<>>, TRUE),
            PyList(<<PyDict({"field"}, <<"System.Title">>, FALSE),
                     PyDict({"field", "descending"}, <<"System.Id">>, TRUE)>>),
            PyList(<<PyStr(<<"System.Id">>)>>),
            PyList(<<>>)}

\* the params mappings of at most MaxParams keys, over the first n keys
RECURSIVE ParamsUpTo(_)
ParamsUpTo(n) ==
    IF n = 0 THEN {<<>>}
    ELSE LET before == ParamsUpTo(n - 1) IN
         before \cup
           {p @@ (ParamKeys[n] :> v) :
              p \in {q \in before : Cardinality(DOMAIN q) < MaxParams},
              v \in ParamValues(ParamKeys[n])}

ParamsMappings == ParamsUpTo(Len(ParamKeys))

NLWords ==
    {Keyword.bug, Keyword.task, Keyword.story, Keyword.open, Keyword.new, Keyword.done, <<"B", "u", "g", "s">>, <<"C", "L", "O", "S", "E", "D">>,
     <<"s", "h", "o", "w">>, <<" ">>}

NLQueries ==
    {PyStr(Concat(ws)) : ws \in UNION {[1..n -> NLWords] : n \in 0..MaxWords}}
      \cup {[type |-> "none"]}

WiqlInputs ==
    {[fn |-> "_build_wiql_query", params |-> p, project |-> j] :
        p \in ParamsMappings, j \in Projects}
      \cup {[fn |-> "_generate_wiql_from_natural_language",
             natural_language_query |-> q, project |-> j] :
               q \in NLQueries, j \in Projects}

NotBuilt == [ran |-> FALSE, raised |-> FALSE, query |-> <<>>]

InitWiql ==
    /\ wiql_in \in WiqlInputs
    /\ wiql_out = NotBuilt

call_build_wiql_query ==
    /\ ~wiql_out.ran
    /\ wiql_in.fn = "_build_wiql_query"
    /\ wiql_out' = [ran |-> TRUE] @@ _build_wiql_query(wiql_in.params, wiql_in.project)
    /\ UNCHANGED <<wiql_in, callVars, priorityVars, registryVars, initVars>>

call_generate_wiql_from_natural_language ==
    /\ ~wiql_out.ran
    /\ wiql_in.fn = "_generate_wiql_from_natural_language"
    /\ wiql_out' = [ran |-> TRUE]
                     @@ _generate_wiql_from_natural_language(
                            wiql_in.natural_language_query, wiql_in.project)
    /\ UNCHANGED <<wiql_in, callVars, priorityVars, registryVars, initVars>>

InitWiqlSpec == InitCall /\ InitPriorityIdle /\ InitRegistryIdle /\ InitWiql /\ InitConstructIdle

NextWiql ==
    \/ call_build_wiql_query
    \/ call_generate_wiql_from_natural_language

SpecWiql == InitWiqlSpec /\ [][NextWiql]_vars

(***************************************************************************)
(* Properties of the WIQL builders (checked under SpecWiql).               *)
(***************************************************************************)
RECURSIVE JoinText(_, _)
JoinText(parts, sep) ==
    IF parts = <<>> THEN ""
    ELSE IF Len(parts) = 1 THEN parts[1]
    ELSE parts[1] \o sep \o JoinText(Tail(parts), sep)

BuiltQuery == wiql_out.ran /\ ~wiql_out.raised /\ wiql_in.fn = "_build_wiql_query"

\* The values of a supplied filter, as strings: the string itself, or the
\* elements of the list.
FilterValues(params, key) ==
    IF ~Supplied(params, key) THEN <<>>
    ELSE LET x == params[key] IN
         CASE x.type = "str" -> <<Text(x.s)>>
           [] x.type \in {"list", "tuple"} ->
                [i \in DOMAIN x.items |-> Text(Format(x.items[i]))]
           [] OTHER -> <<Text(Format(x))>>

\* "= 'v'" for one value, "IN ('a', 'b')" for several
EqualsOrInText(field, values) ==
    IF values = <<>> THEN <<>>
    ELSE IF Len(values) = 1 THEN <<field \o " = '" \o values[1] \o "'">>
    ELSE <<field \o " IN ("
             \o JoinText([i \in DOMAIN values |-> "'" \o values[i] \o "'"], ", ")
             \o ")">>

FieldListText(params) ==
    LET fields == IF Supplied(params, "fields") THEN params["fields"].items
                  ELSE DefaultFields
    IN JoinText([i \in DOMAIN fields |-> "[" \o Text(Format(fields[i])) \o "]"], ", ")

\* the query text around the TOP clause and the filters' conditions
QueryText(params, project, top, conditions) ==
    "SELECT " \o top \o FieldListText(params) \o " FROM WorkItems WHERE "
      \o JoinText(<<"[System.TeamProject] = '" \o Text(project) \o "'">> \o conditions,
                  " AND ")
      \o Text(OrderByClause(params))

C13_ClaimedTop(params) ==
    IF "maxItems" \in DOMAIN params /\ params["maxItems"].type = "int"
         /\ params["maxItems"].n > 0
    THEN "TOP " \o ToString(params["maxItems"].n) \o " "
    ELSE ""

C13_ClaimedConditions(params) ==
    EqualsOrInText("[System.WorkItemType]", FilterValues(params, "workItemTypes"))
      \o EqualsOrInText("[System.State]", FilterValues(params, "states"))
      \o EqualsOrInText("[System.AssignedTo]", FilterValues(params, "assignedTo"))
      \o EqualsOrInText("[System.AreaPath]", FilterValues(params, "areaPath"))
      \o EqualsOrInText("[System.IterationPath]", FilterValues(params, "iterationPath"))
      \o EqualsOrInText("[System.Tags]", FilterValues(params, "tags"))
      \o EqualsOrInText("[System.Title]", FilterValues(params, "searchTerms"))

StrOrListValues(params, key) ==
    IF Supplied(params, key) /\ params[key].type \in {"str", "list"}
    THEN FilterValues(params, key) ELSE <<>>

\* a path filter: UNDER with the asterisks removed when the path has one
PathText(field, params, key) ==
    IF ~Supplied(params, key) THEN <<>>
    ELSE LET path == params[key].s IN
         IF key = "iterationPath" /\ Text(path) = "@CurrentIteration"
         THEN <<field \o " = @CurrentIteration">>
         ELSE IF \E i \in DOMAIN path : path[i] = Star
         THEN <<field \o " UNDER '"
                  \o Text(SelectSeq(path, LAMBDA c : c # Star)) \o "'">>
         ELSE <<field \o " = '" \o Text(path) \o "'">>

C13_AmendedTop(params) ==
    IF "maxItems" \in DOMAIN params /\ params["maxItems"].type \in {"int", "bool"}
         /\ IntValue(params["maxItems"]) > 0
    THEN "TOP " \o Text(Format(params["maxItems"])) \o " "
    ELSE ""

C13_AmendedConditions(params) ==
    LET tags == StrOrListValues(params, "tags")
        terms == StrOrListValues(params, "searchTerms")
    IN EqualsOrInText("[System.WorkItemType]", StrOrListValues(params, "workItemTypes"))
         \o EqualsOrInText("[System.State]", StrOrListValues(params, "states"))
         \o EqualsOrInText("[System.AssignedTo]", FilterValues(params, "assignedTo"))
         \o PathText("[System.AreaPath]", params, "areaPath")
         \o PathText("[System.IterationPath]", params, "iterationPath")
         \o [i \in DOMAIN tags |-> "[System.Tags] CONTAINS '" \o tags[i] \o "'"]
         \o [i \in DOMAIN terms |->
               "([System.Title] CONTAINS '" \o terms[i]
                 \o "' OR [System.Description] CONTAINS '" \o terms[i] \o "')"]

RECURSIVE Scan(_, _, _)
Scan(t, inside, cur) ==
    IF t = <<>> THEN IF inside THEN <<[closed |-> FALSE, text |-> cur]>> ELSE <<>>
    ELSE IF Head(t) = Quote
    THEN IF inside THEN <<[closed |-> TRUE, text |-> cur]>> \o Scan(Tail(t), FALSE, <<>>)
         ELSE Scan(Tail(t), TRUE, <<>>)
    ELSE Scan(Tail(t), inside, IF inside THEN Append(cur, Head(t)) ELSE cur)

Literals(t) == Scan(t, FALSE, <<>>)

RECURSIVE Twice(_)
Twice(vs) == IF vs = <<>> THEN <<>> ELSE <<Head(vs), Head(vs)>> \o Twice(Tail(vs))

\* the values of a filter as texts
FilterTexts(params, key) ==
    IF ~Supplied(params, key) THEN <<>>
    ELSE LET x == params[key] IN
         CASE x.type = "str" -> <<x.s>>
           [] x.type = "list" -> [i \in DOMAIN x.items |-> Format(x.items[i])]
           [] OTHER -> <<>>

PathTexts(params, key) ==
    IF ~Supplied(params, key) \/ params[key].s = <<"@CurrentIteration">> THEN <<>>
    ELSE <<SelectSeq(params[key].s, LAMBDA c : c # Star)>>

\* the values the call interpolates between quotes, in the order of the query
InterpolatedValues ==
    IF wiql_in.fn = "_build_wiql_query"
    THEN LET params == wiql_in.params IN
         <<wiql_in.project>>
           \o FilterTexts(params, "workItemTypes") \o FilterTexts(params, "states")
           \o (IF Supplied(params, "assignedTo")
               THEN <<Format(params["assignedTo"])>> ELSE <<>>)
           \o PathTexts(params, "areaPath") \o PathTexts(params, "iterationPath")
           \o FilterTexts(params, "tags") \o Twice(FilterTexts(params, "searchTerms"))
    ELSE IF wiql_in.natural_language_query.type # "str" THEN << <<"Task">> >>
    ELSE LET query_lower == lower(wiql_in.natural_language_query.s)
             types == DetectedTypes(query_lower)
             states == DetectedStates(query_lower)
         IN <<wiql_in.project>> \o [i \in DOMAIN types |-> <<types[i]>>]
              \o [i \in DOMAIN states |-> <<states[i]>>]

\* C14: in every query of _build_wiql_query and
\* _generate_wiql_from_natural_language the string literals are exactly the
\* interpolated values, each closed where the value ends, also for a value that
\* holds a single quote.
C14_ValuesAreLiterals ==
    (wiql_out.ran /\ ~wiql_out.raised) =>
        Literals(wiql_out.query)
          = [i \in DOMAIN InterpolatedValues |->
               [closed |-> TRUE, text |-> InterpolatedValues[i]]]

GeneratedQuery ==
    /\ wiql_out.ran
    /\ wiql_in.fn = "_generate_wiql_from_natural_language"
    /\ wiql_in.natural_language_query.type = "str"

\* the names whose keyword the lower-cased query holds, in the order given
Mentioned(query, names) ==
    SelectSeq(names, LAMBDA n : \E k \in n.keywords : Contains(lower(query), k))

TypeNames ==
    <<[name |-> "Bug", keywords |-> {Keyword.bug}],
      [name |-> "Task", keywords |-> {Keyword.task}],
      [name |-> "User Story", keywords |-> {Keyword.story}]>>

StateNames ==
    <<[name |-> "Active", keywords |-> {Keyword.open, Keyword.active}],
      [name |-> "New", keywords |-> {Keyword.new}],
      [name |-> "Closed", keywords |-> {Keyword.closed, Keyword.done, Keyword.complete}]>>

Names(ns) == [i \in DOMAIN ns |-> ns[i].name]

\* the orders in which all three types may be listed
AllTypes ==
    {p \in [1..3 -> {"Bug", "Task", "User Story"}] : \A i, j \in 1..3 : i # j => p[i] # p[j]}

C15_ClaimedTexts(query, project) ==
    LET types == Names(Mentioned(query, TypeNames))
        states == Names(Mentioned(query, StateNames))
        type_clauses ==
            IF types = <<>>
            THEN {EqualsOrInText("[System.WorkItemType]", p)[1] : p \in AllTypes}
            ELSE {EqualsOrInText("[System.WorkItemType]", types)[1]}
        state_clause ==
            IF states = <<>> THEN ""
            ELSE " AND " \o EqualsOrInText("[System.State]", states)[1]
    IN {"SELECT [System.Id], [System.Title], [System.State], [System.WorkItemType] "
          \o "FROM WorkItems WHERE [System.TeamProject] = '" \o Text(project) \o "' AND "
          \o c \o state_clause \o " ORDER BY [System.ChangedDate] DESC" :
            c \in type_clauses}

\* C15: for every natural-language query string the query returned is the fixed
\* SELECT over the project with the type clause of the detected types (Bug,
\* Task, User Story in that order, all three when none is detected), "=" for one
\* type and IN for several, followed by the state clause exactly when a state
\* (Active, New, Closed) is detected, and ORDER BY [System.ChangedDate] DESC.
C15_GeneratedQueryForm ==
    GeneratedQuery =>
        /\ ~wiql_out.raised
        /\ Text(wiql_out.query)
             \in C15_ClaimedTexts(wiql_in.natural_language_query.s, wiql_in.project)

C15_Witness ==
    /\ GeneratedQuery
    /\ wiql_in.natural_language_query.s = <<"B", "u", "g", "s">> \o Keyword.done
    /\ wiql_in.project = <<"Proj">>
    /\ Text(wiql_out.query)
         = "SELECT [System.Id], [System.Title], [System.State], [System.WorkItemType] "
             \o "FROM WorkItems WHERE [System.TeamProject] = 'Proj' AND "
             \o "[System.WorkItemType] = 'Bug' AND [System.State] = 'Closed' "
             \o "ORDER BY [System.ChangedDate] DESC"

LoopDone ==
    /\ method = "create_work_items"
    /\ pc \in {"cwi_close", "cwi_result", "cwi_finish"}

\* The item has what lines 361-410 read without an exception.
Submittable(item) ==
    /\ item.title # Absent
    /\ item.description # Absent
    /\ PriorityStep(item).raised = ""

\* The creation POSTs sent so far are for items in list order, at most one
\* for an item.
PostsInListOrder ==
    /\ \A k \in DOMAIN reqlog : reqlog[k].item \in 1..Len(items)
    /\ \A k \in DOMAIN reqlog : \A l \in DOMAIN reqlog :
           k < l => reqlog[k].item < reqlog[l].item

\* Whatever happened to the items before it, an item that can be submitted
\* has had its POST when the loop has ended.
EveryItemAttempted ==
    \A i \in DOMAIN items :
        Submittable(items[i]) => \E k \in DOMAIN reqlog : reqlog[k].item = i

\* The POST was answered with status 200.
Returned200(q) == q.response.status = HTTP_OK

\* The POST was answered with status 200 and a body that response.json()
\* reads as a JSON object.
Returned200WithJson(q) == q.response.status = HTTP_OK /\ q.response.body = "work_item"

\* The titles of the items whose POST counts as a creation, in list order.
CreatedTitles(Counts(_)) ==
    LET posts == SelectSeq(reqlog, LAMBDA q : Counts(q))
    IN  [k \in DOMAIN posts |-> posts[k].ids]

\* created_items is made of the items whose POST counts as a creation.
CreatedAreThose(Counts(_)) ==
    /\ [k \in DOMAIN created |-> created[k].title] = CreatedTitles(Counts)
    /\ Len(created) <= Len(items)
    /\ pc = "cwi_finish" => result.created_items = created

\* C17 as stated: the items are processed in list order with at most one POST
\* each, a failure on an item does not keep the following items from being
\* attempted, and created_items holds exactly the items whose POST returned
\* 200, in list order.
C17_CreatedAreThe200s ==
    method = "create_work_items" =>
        /\ PostsInListOrder
        /\ LoopDone => EveryItemAttempted /\ CreatedAreThose(Returned200)

\* C17, amended: the items are processed in list order with at most one POST
\* each, a failure on an item does not keep the following items from being
\* attempted, and created_items holds exactly the items whose POST returned
\* 200 with a body that could be read as JSON, in list order.
C17_CreatedAreThe200sWithJson ==
    method = "create_work_items" =>
        /\ PostsInListOrder
        /\ LoopDone => EveryItemAttempted /\ CreatedAreThose(Returned200WithJson)

\* Two items were submitted; the POST of the first was answered 200 with a body
\* that is not JSON, and only the second is in created_items.
C17_Witness ==
    /\ LoopDone
    /\ pc = "cwi_finish"
    /\ Len(items) = 2
    /\ Len(reqlog) = 2
    /\ reqlog[1].response = Ok("invalid_json", <<>>)
    /\ reqlog[2].response = Ok("work_item", <<41>>)
    /\ Len(result.created_items) = 1
    /\ result.created_items[1].title = items[2].title

(***************************************************************************)
(* Properties of the results of the writer (checked under Spec).           *)
(***************************************************************************)
\* create_work_items has ended, and the fields its inputs declare as required
\* were present: the five that lines 153-160 validate, and work_item_type.
CreateCallEnded ==
    /\ method = "create_work_items"
    /\ pc = "done"
    /\ FirstMissing(create_work_items_required) = ""
    /\ hasattr("work_item_type")

\* C18: with the required fields present, create_work_items returns "warning"
\* exactly when no items were extracted, and then no request was made;
\* "error" with "Failed to create work items in Azure DevOps" exactly when
\* items were extracted and none was created; "success" exactly when at least
\* one item was created, with the length of created_items in the message.
C18_StatusByExtractedAndCreated ==
    CreateCallEnded =>
        /\ outcome = "returned"
        /\ result.status \in {"warning", "error", "success"}
        /\ result.status = "warning" <=> items = <<>>
        /\ result.status = "warning" => reqlog = <<>>
        /\ result.status = "error" <=> (items # <<>> /\ created = <<>>)
        /\ result.status = "error" =>
               result.message = "Failed to create work items in Azure DevOps"
        /\ result.status = "success" <=> created # <<>>
        /\ result.status = "success" =>
               /\ result.created_items = created
               /\ result.message
                    = "Successfully created " \o ToString(Len(result.created_items))
                        \o " User Story items"

\* Of two extracted items one was created: the call reports success for one.
C18_Witness ==
    /\ CreateCallEnded
    /\ Len(items) = 2
    /\ Len(created) = 1
    /\ result.status = "success"
    /\ result.message = "Successfully created 1 User Story items"

\* The priority value is one _parse_priority turns into a number.
Parsable(p) == p.type = "str" /\ ~parse_priority(p.s).raised

\* The item has a title, a description and a non-empty priority.
HasPriority(item) ==
    /\ item.title # Absent
    /\ item.description # Absent
    /\ item.priority # NoPriority
    /\ Truthy(item.priority)

\* C19: an item with a non-empty priority, a string or not, has its creation
\* POST sent; when the priority cannot be parsed the POST is without the
\* Microsoft.VSTS.Common.Priority operation.
C19_PriorityNeverKeepsAnItemBack ==
    LoopDone =>
        \A i \in DOMAIN items :
            HasPriority(items[i]) =>
                \E k \in DOMAIN reqlog :
                    /\ reqlog[k].item = i
                    /\ ~Parsable(items[i].priority) =>
                           \A o \in DOMAIN reqlog[k].operations :
                               reqlog[k].operations[o] # "Microsoft.VSTS.Common.Priority"

\* The texts str(e) of the exceptions the extraction may fail with.
ExceptionTexts == {"APIConnectionError", "JSONDecodeError", "AttributeError"}

\* The chat completion raised, or its function-call arguments were not JSON.
ExtractionFailed ==
    /\ llmlog # <<>>
    /\ llmlog[Len(llmlog)] \in {"raise", "bad_json"}

\* What the method returns after an extraction that succeeded with no items.
NothingExtracted(m) ==
    IF m = "extract_work_items"
    THEN [status |-> "warning",
          message |-> "No User Story items were extracted from the input text",
          extracted_items |-> <<>>]
    ELSE [status |-> "warning",
          message |-> "No User Story items were extracted from the input text",
          created_items |-> <<>>]

\* C20: after a failed extraction extract_work_items returns "error" with a
\* message that begins "Error extracting work items:", create_work_items
\* returns "error" with a message that begins "Error creating work items:",
\* and the result is never that of an extraction that found no items.
C20_ExtractionFailureIsAnError ==
    (pc = "done" /\ ExtractionFailed) =>
        /\ outcome = "returned"
        /\ result.status = "error"
        /\ method = "extract_work_items" =>
               \E e \in ExceptionTexts :
                   result.message = "Error extracting work items: " \o e
        /\ method = "create_work_items" =>
               \E e \in ExceptionTexts :
                   result.message = "Error creating work items: " \o e
        /\ result # NothingExtracted(method)

(***************************************************************************)
(* Properties of the query of build_work_items (checked under Spec).       *)
(***************************************************************************)
\* build_work_items has ended; its required parameters and query_type were
\* present and use_natural_language was enabled.
NaturalLanguageCallEnded ==
    /\ method = "build_work_items"
    /\ pc = "done"
    /\ FirstMissing(build_work_items_required) = ""
    /\ hasattr("query_type")
    /\ hasattr("use_natural_language") /\ ~Falsy(attrs["use_natural_language"])

\* Generating the query fails: natural_language_query has no lower(), which
\* line 328 calls.
GenerationFails ==
    /\ ~Missing("natural_language_query")
    /\ ValueOf(attrs["natural_language_query"]).type # "str"

\* C21: with use_natural_language enabled, a missing natural_language_query
\* gives the "Natural language query is required ..." error, a failure to
\* generate the query gives an error that begins "Natural language processing
\* error:", and in both cases no request is sent.
C21_NaturalLanguageFailureIsAnError ==
    NaturalLanguageCallEnded =>
        /\ Missing("natural_language_query") =>
               /\ result = [status |-> "error",
                            message |-> "Natural language query is required when 'Use Natural Language' is enabled",
                            work_items |-> <<>>]
               /\ reqlog = <<>>
        /\ GenerationFails =>
               /\ outcome = "returned"
               /\ result.status = "error"
               /\ \E e \in ExceptionTexts :
                      result.message = "Natural language processing error: " \o e
               /\ reqlog = <<>>

(***************************************************************************)
(* Properties of every output method (checked under Spec).                 *)
(***************************************************************************)
\* C22: when a call of an output method has returned, the status of the
\* component is the Data the call returned, on every return path.
C22_StatusIsTheReturnedData ==
    (method \in {"build_work_items", "create_work_items", "extract_work_items",
                 "build_issues"}
       /\ pc = "done" /\ outcome = "returned") =>
        status = result

(***************************************************************************)
(* Properties of JiraComponent.build_issues (checked under Spec).          *)
(***************************************************************************)
\* build_issues has ended and its POST was answered 200 with a JSON object.
JiraAnswered200 ==
    /\ method = "build_issues"
    /\ pc = "done"
    /\ Len(reqlog) = 1
    /\ reqlog[1].response.status = HTTP_OK
    /\ reqlog[1].response.body = "json"

\* the least n with n * b >= a
Ceiling(a, b) == CHOOSE n \in 0..a : n * b >= a /\ (n = 0 \/ (n - 1) * b < a)

\* C23: on a 200 response the result has a pagination object exactly when the
\* response has startAt, maxResults and total; then page is
\* (startAt div maxResults) + 1, total_pages is the ceiling of
\* total / maxResults and has_more says startAt + maxResults < total; and
\* issues_count is the length of the issues list of the result.
C23_PaginationOfA200 ==
    JiraAnswered200 =>
        LET b == reqlog[1].response.json IN
        /\ ("pagination" \in DOMAIN result)
              <=> ({"startAt", "maxResults", "total"} \subseteq b.keys)
        /\ "pagination" \in DOMAIN result =>
               /\ result.pagination.page = (b.startAt \div b.maxResults) + 1
               /\ result.pagination.total_pages = Ceiling(b.total, b.maxResults)
               /\ result.pagination.has_more = (b.startAt + b.maxResults < b.total)
        /\ result.issues_count = Len(result.issues)

\* C24: a well-formed 200 response, maxResults = 0 included, gives a result
\* with the issues and the total of the response, not an error.
C24_EveryWellFormed200GivesItsIssues ==
    (JiraAnswered200 /\ reqlog[1].response.json.keys = JiraKeys) =>
        /\ outcome = "returned"
        /\ "issues" \in DOMAIN result
        /\ result.issues = reqlog[1].response.json.issues
        /\ result.total = reqlog[1].response.json.total
        /\ "status" \in DOMAIN result => result.status # "error"

(***************************************************************************)
(* The status key of the results (checked under Spec).                     *)
(***************************************************************************)
\* C25: every result an output method returns has a "status" key whose value
\* is "success", "warning" or "error".
C25_EveryResultHasAStatus ==
    (method \in Methods /\ pc = "done" /\ outcome = "returned") =>
        /\ "status" \in DOMAIN result
        /\ result.status \in {"success", "warning", "error"}

(***************************************************************************)
(* Properties of the flat work items (checked under Spec).                 *)
(***************************************************************************)
\* The details of the work items were fetched and are in the result.
DetailsFetched ==
    /\ method = "build_work_items"
    /\ pc = "done"
    /\ Len(reqlog) = 2
    /\ reqlog[2].response.status = HTTP_OK
    /\ reqlog[2].response.body \in DetailBodies

FlatKeys ==
    {"id", "url", "title", "state", "type", "assigned_to", "description",
     "created_date", "created_by", "changed_date", "tags", "iteration_path",
     "area_path"}

\* The key of the flat work item that holds the field of the API response.
FlatKeyOf ==
    [f \in FieldNames |->
        CASE f = "System.Title" -> "title"
          [] f = "System.State" -> "state"
          [] f = "System.WorkItemType" -> "type"
          [] f = "System.AssignedTo" -> "assigned_to"
          [] f = "System.Description" -> "description"
          [] f = "System.CreatedDate" -> "created_date"
          [] f = "System.CreatedBy" -> "created_by"
          [] f = "System.ChangedDate" -> "changed_date"
          [] f = "System.Tags" -> "tags"
          [] f = "System.IterationPath" -> "iteration_path"
          [] f = "System.AreaPath" -> "area_path"]

\* C26: every work item returned is a record of the 13 keys with string
\* values; a field absent from the API response gives the empty string, and
\* an identity object gives its displayName.
C26_FlatWorkItemOfTheResponse ==
    DetailsFetched =>
        /\ result.status = "success"
        /\ Len(result.work_items) = Len(reqlog[2].response.ids)
        /\ \A i \in DOMAIN result.work_items :
               LET w == result.work_items[i]
                   item == DetailsValue(reqlog[2].response)[i]
               IN  /\ DOMAIN w = FlatKeys
                   /\ \A k \in FlatKeys : w[k] \in STRING
                   /\ \A f \in FieldNames :
                          /\ item.fields[f] = NoField => w[FlatKeyOf[f]] = ""
                          /\ (item.fields[f].type = "identity"
                                /\ item.fields[f].displayName # NoField) =>
                                 w[FlatKeyOf[f]] = Text(item.fields[f].displayName.s)

(***************************************************************************)
(* Properties of build_wiql_query (checked under Spec).                    *)
(***************************************************************************)
\* With the inputs of the component build_work_items has a query to send.
HasAQueryToSend ==
    IF hasattr("use_natural_language") /\ ~Falsy(attrs["use_natural_language"])
    THEN ~Missing("natural_language_query")
    ELSE ~Missing("wiql_query")

\* C27: the "query" build_wiql_query returns is the query text that
\* build_work_items sends in its request body for the same inputs.
C27_GeneratedQueryIsTheQuerySent ==
    (method = "build_wiql_query" /\ pc = "done" /\ HasAQueryToSend) =>
        /\ outcome = "returned"
        /\ result.query = wiql_query

C29_NoUpdateUnlessAsked ==
    (loaded # <<>> /\ ~loaded.update_component_registry) =>
        loaded.after = loaded.before

(***************************************************************************)
(* The construction of AzureDevOpsComponent and AzureDevOpsWriterComponent *)
(* (specification SpecConstruct).  __init__ runs the base constructor,     *)
(* builds _metadata and sets the defaults of the input attributes, all     *)
(* inside one try whose except clause logs and does not re-raise.          *)
(***************************************************************************)
ComponentClasses == {"AzureDevOpsComponent", "AzureDevOpsWriterComponent"}

\* The names of the declared inputs of a class.
InputNames(cls) ==
    IF cls = "AzureDevOpsComponent"
    THEN {"organization", "project", "pat_token", "use_natural_language", "wiql_query",
          "natural_language_query", "query_type", "openai_api_key", "model"}
    ELSE {"organization", "project", "pat_token", "work_item_type", "input_text",
          "area_path", "iteration_path", "openai_api_key", "model"}

\* The value _set_default_attributes gives an attribute the instance lacks.
DefaultOf(cls, a) ==
    CASE a = "wiql_query" ->
            "SELECT [System.Id], [System.Title] FROM WorkItems WHERE [System.WorkItemType] = 'Task'"
      [] a = "query_type" -> "flat"
      [] a = "use_natural_language" -> "False"
      [] a = "model" -> "gpt-3.5-turbo"
      [] a = "work_item_type" -> "User Story"
      [] OTHER -> ""

\* `if not hasattr(self, a): self.a = default`, for every input of the class
_set_default_attributes(cls, given) ==
    [a \in InputNames(cls) |-> IF given[a] # Absent THEN given[a] ELSE DefaultOf(cls, a)]

\* A value an attribute was given before the defaults are set.
GivenValue(a) == IF a = "use_natural_language" THEN "True" ELSE "given"

\* The input attributes an instance can have when the base constructor ends:
\* each one set to a given value or not set.
AttributesSet(cls) == [InputNames(cls) -> {Absent, "set"}]
Given(cls, f) == [a \in InputNames(cls) |-> IF f[a] = "set" THEN GivenValue(a) ELSE Absent]

\* Component(**kwargs) is called.
init_enter ==
    /\ init_pc = "idle"
    /\ \E cls \in ComponentClasses :
          /\ constructing' = cls
          /\ self_attrs' = [a \in InputNames(cls) |-> Absent]
    /\ init_pc' = "super"
    /\ UNCHANGED <<preset, init_raised>>
    /\ UNCHANGED <<callVars, priorityVars, registryVars, wiqlVars>>

\* `super().__init__(**kwargs)`: the base constructor returns or raises an
\* Exception, and has set some of the input attributes by then.
init_super ==
    /\ init_pc = "super"
    /\ \E f \in AttributesSet(constructing) : \E raises \in BOOLEAN :
          /\ self_attrs' = Given(constructing, f)
          /\ preset' = Given(constructing, f)
          /\ init_pc' = IF raises THEN "except" ELSE "metadata"
    /\ UNCHANGED <<constructing, init_raised>>
    /\ UNCHANGED <<callVars, priorityVars, registryVars, wiqlVars>>

\* `self._metadata = {...}`: str() of the class's own string attributes.
init_metadata ==
    /\ init_pc = "metadata"
    /\ init_pc' = "defaults"
    /\ UNCHANGED <<constructing, preset, self_attrs, init_raised>>
    /\ UNCHANGED <<callVars, priorityVars, registryVars, wiqlVars>>

\* `self._set_default_attributes()` and the logger.info after it.
init_defaults ==
    /\ init_pc = "defaults"
    /\ self_attrs' = _set_default_attributes(constructing, self_attrs)
    /\ init_pc' = "constructed"
    /\ UNCHANGED <<constructing, preset, init_raised>>
    /\ UNCHANGED <<callVars, priorityVars, registryVars, wiqlVars>>

\* `except Exception as e: logger.exception(...)`: not re-raised.
init_except ==
    /\ init_pc = "except"
    /\ init_pc' = "constructed"
    /\ UNCHANGED <<constructing, preset, self_attrs, init_raised>>
    /\ UNCHANGED <<callVars, priorityVars, registryVars, wiqlVars>>

NextConstruct ==
    \/ init_enter
    \/ init_super
    \/ init_metadata
    \/ init_defaults
    \/ init_except

SpecConstruct == Init /\ [][NextConstruct]_vars

(***************************************************************************)
(* C30  Constructing either component never raises, and the constructed    *)
(* instance has every declared input attribute: the ones it had when the   *)
(* base constructor ended keep their values, the others hold the defaults. *)
(***************************************************************************)
Constructed == init_pc = "constructed"

C30_ConstructedWithEveryInput ==
    Constructed =>
        /\ ~init_raised
        /\ \A a \in InputNames(constructing) :
              /\ self_attrs[a] # Absent
              /\ self_attrs[a] = IF preset[a] # Absent THEN preset[a]
                                 ELSE DefaultOf(constructing, a)

====
